---- MODULE Spec2Model ----
(***************************************************************************)
(* State-machine model of the cross-reference and coverage analysis core   *)
(* of cdlreq (cdlreq/core/validator.py, cdlreq/core/test_coverage.py).     *)
(*                                                                         *)
(* A Python str is modelled as a TLA+ string when it is an opaque          *)
(* identifier and as a sequence of string pieces when the code builds it   *)
(* (an f-string, a join).  A Python list is a sequence, a set is a set, a  *)
(* dict is a record [keys, val] that keeps insertion order.                *)
(***************************************************************************)
EXTENDS Integers, Sequences, FiniteSets, TLC

\* ---------------------------------------------------------------- bounds
\* Largest total number of dependency entries over a specification list.
MaxEdges == 4
\* Largest total number of related-requirement entries over a list.
MaxLinks == 3
\* Longest list of specifications handed to the coverage analyzer.
MaxUnits == 2
\* Largest number of lines of a test log.
MaxLogLines == 2
\* Number of validate_cross_references() calls made on one validator.
MaxCalls == 2
\* Largest total number of dependency entries of a list two runs walk at once.
MaxRunEdges == 2
\* Largest total number of dependency entries of a list whose errors are ordered.
MaxOrderEdges == 3
\* Largest number of declared unit-test files a percentage is computed for.
MaxFiles == 4
\* Longest related_requirements / dependencies list of a constructor call.
MaxRefs == 2
\* Largest number of documents of a directory handed to the parser.
MaxDocs == 2
\* Largest number of statements of a source text handed to the extractors.
MaxStmts == 2

\* Identifiers the caller may use.  Each passes the constructor checks of
\* models.py (prefix "SPEC-" / "REQ-").
SpecIds == {"SPEC-1", "SPEC-2", "SPEC-3"}
ReqIds == {"REQ-1", "REQ-2"}

\* ------------------------------------------------------------- the state
VARIABLES
  requirements,    \* the caller's list of Requirement
  specifications,  \* the caller's list of Specification
  constructed,     \* has CrossReferenceValidator(...) been called
  validator,       \* the attributes of the CrossReferenceValidator
  results,         \* what the validate_cross_references() calls returned, in order
  links,           \* outcome of the get_missing_requirement_links() call
  wpc,             \* position of the validate_cross_references() call in progress
  errors,          \* its local errors
  walk,            \* the locals of _find_circular_dependencies
  top,             \* position of its top-level loop in self.specifications
  frames,          \* the activation records of dfs, innermost last
  cov_specifications, \* the list handed to TestCoverageAnalyzer (unit_test read)
  files,           \* the file system: path -> source file or "missing"
  log,             \* the test-list file: does it exist, its text
  analyzer,        \* the attributes of the TestCoverageAnalyzer
  report,          \* outcome of the analyze_test_list() call
  percentage,      \* outcome of the get_coverage_percentage() call
  extraction,      \* outcome of the two test-function extractions of one text
  ctor,            \* the last Requirement(...) / Specification(...) / factory call
  parsed,          \* outcome of the parse_specifications_directory() call
  cmd,             \* outcome of the validate command
  runs             \* the validate_cross_references() calls of concurrent callers

covVars == <<cov_specifications, files, log, analyzer, report, percentage, extraction>>

modelVars == <<ctor, parsed, cmd>>

vars == <<requirements, specifications, constructed, validator, results, links,
          wpc, errors, walk, top, frames, covVars, modelVars, runs>>

walkVars == <<wpc, errors, walk, top, frames>>

\* ------------------------------------------------------- generic helpers
Range(s) == {s[i] : i \in 1..Len(s)}

SeqsUpTo(S, n) == UNION {[1..k -> S] : k \in 0..n}

\* list.index(x): position of the first occurrence, 0 when there is none
\* (where Python raises ValueError).
IndexOf(list, x) ==
  IF x \in Range(list)
  THEN CHOOSE i \in 1..Len(list) : list[i] = x /\ \A j \in 1..(i - 1) : list[j] # x
  ELSE 0

\* sep.join(list) as a sequence of pieces.
RECURSIVE Join(_, _)
Join(list, sep) ==
  IF list = <<>> THEN <<>>
  ELSE IF Len(list) = 1 THEN <<list[1]>>
  ELSE <<list[1], sep>> \o Join(Tail(list), sep)

\* ---------------------------------------------------------------- models
\* The fields of a Specification the validator reads.
Specification(id, related_requirements, dependencies) ==
  [id |-> id,
   related_requirements |-> related_requirements,
   dependencies |-> dependencies]

\* The field of a Requirement the validator reads.
Requirement(id) == [id |-> id]

\* {e.id: e for e in entities}: a key keeps the position of its first
\* occurrence and the value of its last one.
RECURSIVE DictKeys(_)
DictKeys(entities) ==
  IF entities = <<>> THEN <<>>
  ELSE LET front == DictKeys(SubSeq(entities, 1, Len(entities) - 1))
           k == entities[Len(entities)].id
       IN IF k \in Range(front) THEN front ELSE Append(front, k)

\* Mutant of DictById: a key keeps the value of its first occurrence.
DictById_FirstWins(entities) ==
  LET keys == DictKeys(entities)
  IN [keys |-> keys,
      val |-> [k \in Range(keys) |->
                 entities[CHOOSE i \in 1..Len(entities) :
                             /\ entities[i].id = k
                             /\ \A j \in 1..(i - 1) : entities[j].id # k]]]

DictById(entities) ==
  LET keys == DictKeys(entities)
  IN [keys |-> keys,
      val |-> [k \in Range(keys) |->
                 entities[CHOOSE i \in 1..Len(entities) :
                             /\ entities[i].id = k
                             /\ \A j \in (i + 1)..Len(entities) : entities[j].id # k]]]

\* k in d
Has(d, k) == k \in Range(d.keys)

\* list(d.values())
Values(d) == [i \in 1..Len(d.keys) |-> d.val[d.keys[i]]]

EmptyDict == [keys |-> <<>>, val |-> <<>>]

\* ------------------------------------------------------ ValidationResult
\* ValidationResult.__init__; errs or [] is errs for a list.
ValidationResult(is_valid, errs) == [is_valid |-> is_valid, errors |-> errs]

\* ValidationResult.__bool__
Bool(result) == result.is_valid

\* ----------------------------------------------- CrossReferenceValidator
\* CrossReferenceValidator.__init__: the two indices.
NewValidator(reqs, specs) ==
  [requirements |-> DictById(reqs), specifications |-> DictById(specs)]

\* f"Specification {spec.id} references non-existent requirement {req_id}"
ReqError(spec_id, req_id) ==
  <<"Specification ", spec_id, " references non-existent requirement ", req_id>>

\* f"Specification {spec.id} depends on non-existent specification {dep_id}"
DepError(spec_id, dep_id) ==
  <<"Specification ", spec_id, " depends on non-existent specification ", dep_id>>

\* f"Circular dependency detected: {' -> '.join(cycle)}"
CycleError(cycle) == <<"Circular dependency detected: ">> \o Join(cycle, " -> ")

\* Mutant of MissingRequirements: the loop breaks after its first error.
MissingRequirements_StopAtFirst(self, spec) ==
  LET all == SelectSeq(spec.related_requirements,
                       LAMBDA req_id : ~Has(self.requirements, req_id))
  IN IF all = <<>> THEN <<>> ELSE <<all[1]>>

\* The inner loop of the first check: the related requirements of one
\* specification that the requirement index lacks, in declared order, one
\* entry per occurrence.
MissingRequirements(self, spec) ==
  SelectSeq(spec.related_requirements, LAMBDA req_id : ~Has(self.requirements, req_id))

\* Mutant of MissingDependencies: the lookup goes to the requirement index.
MissingDependencies_WrongIndex(self, spec) ==
  SelectSeq(spec.dependencies, LAMBDA dep_id : ~Has(self.requirements, dep_id))

\* The inner loop of the second check.
MissingDependencies(self, spec) ==
  SelectSeq(spec.dependencies, LAMBDA dep_id : ~Has(self.specifications, dep_id))

\* The outer loop of the first check, over self.specifications.values().
RECURSIVE RequirementErrors(_, _)
RequirementErrors(self, specs) ==
  IF specs = <<>> THEN <<>>
  ELSE LET spec == Head(specs)
           missing == MissingRequirements(self, spec)
       IN [i \in 1..Len(missing) |-> ReqError(spec.id, missing[i])]
          \o RequirementErrors(self, Tail(specs))

\* The outer loop of the second check.
RECURSIVE DependencyErrors(_, _)
DependencyErrors(self, specs) ==
  IF specs = <<>> THEN <<>>
  ELSE LET spec == Head(specs)
           missing == MissingDependencies(self, spec)
       IN [i \in 1..Len(missing) |-> DepError(spec.id, missing[i])]
          \o DependencyErrors(self, Tail(specs))

\* ------------------------------------------ _find_circular_dependencies
\* Mutant of NewWalk: cycles is an attribute of the validator that outlives
\* the call, only visited and rec_stack start empty.
NewWalk_KeepCycles ==
  [visited |-> {}, rec_stack |-> {}, cycles |-> walk.cycles, raised |-> "none"]

\* The locals of one call: visited, rec_stack, cycles; raised is the
\* exception that left the call, "none" while there is none.
NewWalk == [visited |-> {}, rec_stack |-> {}, cycles |-> <<>>, raised |-> "none"]

\* Mutant of CycleSlice: the closing + [spec_id] is missing.
CycleSlice_NoClose(path, spec_id) ==
  SubSeq(path, IndexOf(path, spec_id), Len(path))

\* Mutant of CycleSlice: the whole path is kept, not the slice from cycle_start.
CycleSlice_WholePath(path, spec_id) == path \o <<spec_id>>

\* path[cycle_start:] + [spec_id], with cycle_start = path.index(spec_id).
CycleSlice(path, spec_id) ==
  SubSeq(path, IndexOf(path, spec_id), Len(path)) \o <<spec_id>>

\* Mutant of RecordCycle: the new cycle is put in front of the list.
RecordCycle_Prepend(w, spec_id, path) ==
  IF IndexOf(path, spec_id) = 0
  THEN [w EXCEPT !.raised = "ValueError"]
  ELSE [w EXCEPT !.cycles = <<CycleSlice(path, spec_id)>> \o @]

\* The first branch of dfs: spec_id is on the recursion stack.
RecordCycle(w, spec_id, path) ==
  IF IndexOf(path, spec_id) = 0
  THEN [w EXCEPT !.raised = "ValueError"]
  ELSE [w EXCEPT !.cycles = Append(@, CycleSlice(path, spec_id))]

\* Mutant of EnterNode: the node is marked neither visited nor on the stack.
EnterNode_Forget(w, spec_id) == w

\* visited.add(spec_id); rec_stack.add(spec_id)
EnterNode(w, spec_id) ==
  [w EXCEPT !.visited = @ \cup {spec_id}, !.rec_stack = @ \cup {spec_id}]

\* Mutant of LeaveNode: the id stays on the recursion stack.
LeaveNode_Keep(w, spec_id) == w

\* rec_stack.remove(spec_id)
LeaveNode(w, spec_id) ==
  IF spec_id \in w.rec_stack
  THEN [w EXCEPT !.rec_stack = @ \ {spec_id}]
  ELSE [w EXCEPT !.raised = "KeyError"]

\* Mutant of Successors: an id the index lacks is taken to depend on itself.
Successors_AbsentLoops(self, spec_id) ==
  IF Has(self.specifications, spec_id)
  THEN self.specifications.val[spec_id].dependencies
  ELSE <<spec_id>>

\* The dependencies dfs iterates for spec_id: none for an id the index lacks.
Successors(self, spec_id) ==
  IF Has(self.specifications, spec_id)
  THEN self.specifications.val[spec_id].dependencies
  ELSE <<>>

\* Mutant of Branch: the visited test is missing.
Branch_NoSeenTest(w, spec_id) ==
  IF spec_id \in w.rec_stack THEN "cycle" ELSE "new"

\* Mutant of Branch: the visited test comes before the rec_stack test.
Branch_VisitedFirst(w, spec_id) ==
  IF spec_id \in w.visited THEN "seen"
  ELSE IF spec_id \in w.rec_stack THEN "cycle"
  ELSE "new"

\* The two early returns at the head of dfs, in their order.
Branch(w, spec_id) ==
  IF spec_id \in w.rec_stack THEN "cycle"
  ELSE IF spec_id \in w.visited THEN "seen"
  ELSE "new"

\* dfs(spec_id, path) and its loop over the dependencies from position i,
\* threading the locals through the recursion.
RECURSIVE dfs(_, _, _, _), dfs_loop(_, _, _, _, _)
dfs(self, w, spec_id, path) ==
  IF w.raised # "none" THEN w
  ELSE IF Branch(w, spec_id) = "cycle" THEN RecordCycle(w, spec_id, path)
  ELSE IF Branch(w, spec_id) = "seen" THEN w
  ELSE LET after == dfs_loop(self, EnterNode(w, spec_id), spec_id, path, 1)
       IN IF after.raised # "none" THEN after ELSE LeaveNode(after, spec_id)

dfs_loop(self, w, spec_id, path, i) ==
  LET deps == Successors(self, spec_id)
  IN IF i > Len(deps) \/ w.raised # "none" THEN w
     ELSE dfs_loop(self, dfs(self, w, deps[i], path \o <<spec_id>>), spec_id, path, i + 1)

\* The top-level loop: for spec_id in self.specifications, from position i.
RECURSIVE TopLevel(_, _, _)
TopLevel(self, w, i) ==
  LET keys == self.specifications.keys
  IN IF i > Len(keys) \/ w.raised # "none" THEN w
     ELSE TopLevel(self,
                   IF keys[i] \notin w.visited THEN dfs(self, w, keys[i], <<>>) ELSE w,
                   i + 1)

\* Mutant of _find_circular_dependencies: only the walk from the first
\* specification of the index is made.
_find_circular_dependencies_FirstStart(self) ==
  IF self.specifications.keys = <<>> THEN NewWalk
  ELSE dfs(self, NewWalk, self.specifications.keys[1], <<>>)

_find_circular_dependencies(self) == TopLevel(self, NewWalk, 1)

\* Mutant of ResultOf: the flag is len(errors) >= 0.
ResultOf_AlwaysValid(errs) == ValidationResult(Len(errs) >= 0, errs)

\* return ValidationResult(len(errors) == 0, errors)
ResultOf(errs) == ValidationResult(Len(errs) = 0, errs)

\* validate_cross_references: a ValidationResult, or the exception raised.
validate_cross_references(self) ==
  LET specs == Values(self.specifications)
      found == _find_circular_dependencies(self)
      circular_deps == found.cycles
      all == RequirementErrors(self, specs)
                  \o DependencyErrors(self, specs)
                  \o [i \in 1..Len(circular_deps) |-> CycleError(circular_deps[i])]
  IN [raised |-> found.raised,
      value |-> IF found.raised = "none"
                THEN ResultOf(all)
                ELSE ValidationResult(FALSE, <<>>)]

\* The methods the class CrossReferenceValidator defines.
ValidatorMethods == {"__init__", "validate_cross_references", "_find_circular_dependencies"}

\* --------------------------------------------------------------- str
\* A Python str is a TLA+ string; Len, SubSeq and \o act on its characters.
StartsWith(s, prefix) == Len(s) >= Len(prefix) /\ SubSeq(s, 1, Len(prefix)) = prefix

EndsWith(s, suffix) ==
  Len(s) >= Len(suffix) /\ SubSeq(s, Len(s) - Len(suffix) + 1, Len(s)) = suffix

\* t in s
Contains(s, t) == \E i \in 0..(Len(s) - Len(t)) : SubSeq(s, i + 1, i + Len(t)) = t

\* s.find(t) + 1: the position of the first occurrence of t, 0 without one.
RECURSIVE FindFrom(_, _, _)
FindFrom(s, t, i) ==
  IF i + Len(t) - 1 > Len(s) THEN 0
  ELSE IF SubSeq(s, i, i + Len(t) - 1) = t THEN i
  ELSE FindFrom(s, t, i + 1)

Find(s, t) == FindFrom(s, t, 1)

\* s[i - 1 : j], empty beyond the end of s.
Slice(s, i, j) ==
  IF i > Len(s) \/ j < i THEN "" ELSE SubSeq(s, i, IF j > Len(s) THEN Len(s) ELSE j)

Char(s, i) == Slice(s, i, i)

\* The characters str.strip() removes and \s matches (str.isspace), among
\* the characters up to U+00FF, which are the characters of the texts
\* here: U+0009 to U+000D, U+001C to U+001F, the space, U+0085 and U+00A0.
Whitespace ==
  {"\t", "\n", "", "\f", "\r", "", "",
   "", "", " ", "", " "}

\* The first position from i on whose character is not whitespace.
RECURSIVE SkipSpace(_, _)
SkipSpace(s, i) ==
  IF i <= Len(s) /\ Char(s, i) \in Whitespace THEN SkipSpace(s, i + 1) ELSE i

\* The last position up to i whose character is not whitespace, 0 without one.
RECURSIVE SkipSpaceBack(_, _)
SkipSpaceBack(s, i) ==
  IF i >= 1 /\ Char(s, i) \in Whitespace THEN SkipSpaceBack(s, i - 1) ELSE i

\* s.strip()
Strip(s) ==
  LET first == SkipSpace(s, 1)
      last == SkipSpaceBack(s, Len(s))
  IN IF first > last THEN "" ELSE SubSeq(s, first, last)

\* s.split(sep): the list of the pieces between the occurrences of sep.
RECURSIVE Split(_, _)
Split(s, sep) ==
  LET at == Find(s, sep)
  IN IF at = 0 THEN <<s>>
     ELSE <<SubSeq(s, 1, at - 1)>> \o Split(SubSeq(s, at + Len(sep), Len(s)), sep)

\* The characters up to U+00FF that str.lower() changes, and what it makes
\* of each: A to Z, and U+00C0 to U+00DE without the multiplication sign.
\* The pieces joined into one text.
RECURSIVE Concat(_)
Concat(pieces) ==
  IF pieces = <<>> THEN ""
  ELSE IF Len(pieces) = 1 THEN pieces[1]
  ELSE LET h == Len(pieces) \div 2
       IN Concat(SubSeq(pieces, 1, h)) \o Concat(SubSeq(pieces, h + 1, Len(pieces)))

\* What f.read() gives for a file opened with open(path, "r") that holds
\* text: text mode reads with universal newlines, so "\r\n" and a "\r" on
\* its own both arrive as "\n".
ReadText(text) ==
  LET kept == SelectSeq([i \in 1..Len(text) |-> i],
                        LAMBDA i : ~(i > 1 /\ Char(text, i) = "\n" /\ Char(text, i - 1) = "\r"))
  IN Concat([k \in 1..Len(kept) |->
               IF Char(text, kept[k]) = "\r" THEN "\n" ELSE Char(text, kept[k])])

Upper ==
  <<"A", "B", "C", "D", "E", "F", "G", "H", "I", "J", "K", "L", "M",
    "N", "O", "P", "Q", "R", "S", "T", "U", "V", "W", "X", "Y", "Z",
    "À", "Á", "Â", "Ã", "Ä", "Å", "Æ", "Ç", "È", "É", "Ê", "Ë", "Ì",
    "Í", "Î", "Ï", "Ð", "Ñ", "Ò", "Ó", "Ô", "Õ", "Ö", "Ø", "Ù", "Ú",
    "Û", "Ü", "Ý", "Þ">>
Lower ==
  <<"a", "b", "c", "d", "e", "f", "g", "h", "i", "j", "k", "l", "m",
    "n", "o", "p", "q", "r", "s", "t", "u", "v", "w", "x", "y", "z",
    "à", "á", "â", "ã", "ä", "å", "æ", "ç", "è", "é", "ê", "ë", "ì",
    "í", "î", "ï", "ð", "ñ", "ò", "ó", "ô", "õ", "ö", "ø", "ù", "ú",
    "û", "ü", "ý", "þ">>
Digits == {"0", "1", "2", "3", "4", "5", "6", "7", "8", "9"}

\* s.lower()
RECURSIVE ToLower(_)
ToLower(s) ==
  IF s = "" THEN ""
  ELSE LET c == Char(s, 1)
       IN (IF c \in Range(Upper) THEN Lower[IndexOf(Upper, c)] ELSE c)
            \o ToLower(SubSeq(s, 2, Len(s)))

\* The letters and numbers up to U+00FF in neither row: the ordinal
\* indicators, the micro sign, sharp s, y with diaeresis, the superscript
\* digits and the fractions.
Uncased ==
  {"ª", "µ", "º", "¼", "½", "¾", "ß", "ÿ", "²", "³", "¹"}

\* \w of a str pattern: a letter, a number or the underscore.
IsWordChar(c) == c \in Range(Upper) \cup Range(Lower) \cup Digits \cup Uncased \cup {"_"}

\* ------------------------------------------------ entity construction
\* The keyword arguments of a constructor call, or the keys of a parsed
\* document: which fields are given (keys is the list of them in the order
\* the call or the document writes them; the record keeps it as order and
\* its elements as keys), and the values of the checked ones.
Fields(keys, id, type, related_requirements, dependencies) ==
  [keys |-> Range(keys), order |-> keys, id |-> id, type |-> type,
   related_requirements |-> related_requirements, dependencies |-> dependencies]

\* Requirement.__post_init__: valid_types
ValidTypes ==
  {"functional", "security", "performance", "usability", "reliability",
   "maintainability", "portability", "regulatory", "safety"}

\* The dataclass fields without a default.
RequirementRequired == {"id", "title", "description", "type", "acceptance_criteria"}
SpecificationRequired ==
  {"id", "title", "description", "related_requirements", "implementation_unit",
   "unit_test", "test_criteria"}

\* The dataclass fields, in declaration order.
RequirementFields ==
  <<"id", "title", "description", "type", "acceptance_criteria", "tags", "source", "rationale">>
SpecificationFields ==
  <<"id", "title", "description", "related_requirements", "implementation_unit",
    "unit_test", "test_criteria", "design_notes", "dependencies">>

NoEntity == [id |-> ""]

Returned(value) == [raised |-> "none", message |-> <<>>, value |-> value]
Raised(exception, message) == [raised |-> exception, message |-> message, value |-> NoEntity]

\* The first entry of list that does not start with prefix, "" without one.
FirstWithout(list, prefix) ==
  LET bad == SelectSeq(list, LAMBDA x : ~StartsWith(x, prefix))
  IN IF bad = <<>> THEN "" ELSE bad[1]

HasWithout(list, prefix) == \E i \in 1..Len(list) : ~StartsWith(list[i], prefix)

\* Requirement.__post_init__
Requirement_post_init(self) ==
  IF ~StartsWith(self.id, "REQ-")
  THEN Raised("ValueError", <<"Requirement ID must start with 'REQ-': ", self.id>>)
  ELSE IF self.type \notin ValidTypes
  THEN Raised("ValueError", <<"Invalid requirement type: ", self.type>>)
  ELSE Returned(Requirement(self.id))

\* names[1..], each in quotes and followed by a comma.
RECURSIVE QuotedEach(_)
QuotedEach(names) ==
  IF names = <<>> THEN <<>> ELSE <<"'", Head(names), "', ">> \o QuotedEach(Tail(names))

\* The names as the interpreter lists missing arguments: 'a'; 'a' and 'b';
\* 'a', 'b', and 'c'.
QuotedList(names) ==
  IF Len(names) = 1 THEN <<"'", names[1], "'">>
  ELSE IF Len(names) = 2 THEN <<"'", names[1], "' and '", names[2], "'">>
  ELSE QuotedEach(SubSeq(names, 1, Len(names) - 1))
         \o <<"and '", names[Len(names)], "'">>

\* The message of the TypeError the generated __init__ of class cls raises
\* for the keywords order, written in that order, <<>> when it raises none.
\* The interpreter binds the keywords in the order written and stops at the
\* first it cannot bind: self, which the object under construction already
\* fills, or a name that is no field.  Then it looks for the fields without
\* a default that are left unbound.
InitError(cls, fields, required, order) ==
  LET unbound == SelectSeq(order, LAMBDA k : k = "self" \/ k \notin Range(fields))
      missing == SelectSeq(fields, LAMBDA k : k \in required /\ k \notin Range(order))
  IN IF unbound # <<>> /\ unbound[1] = "self"
     THEN <<cls, ".__init__() got multiple values for argument 'self'">>
     ELSE IF unbound # <<>>
     THEN <<cls, ".__init__() got an unexpected keyword argument '", unbound[1], "'">>
     ELSE IF missing # <<>>
     THEN <<cls, ".__init__() missing ", ToString(Len(missing)),
            " required positional argument", IF Len(missing) > 1 THEN "s" ELSE "", ": ">>
            \o QuotedList(missing)
     ELSE <<>>

\* Requirement(**kwargs): the generated __init__, then __post_init__.
NewRequirementEntity(kwargs) ==
  LET error == InitError("Requirement", RequirementFields, RequirementRequired, kwargs.order)
  IN IF error # <<>> THEN Raised("TypeError", error)
     ELSE Requirement_post_init(kwargs)

\* Specification.__post_init__
Specification_post_init(self) ==
  IF ~StartsWith(self.id, "SPEC-")
  THEN Raised("ValueError", <<"Specification ID must start with 'SPEC-': ", self.id>>)
  ELSE IF HasWithout(self.related_requirements, "REQ-")
  THEN Raised("ValueError", <<"Related requirement ID must start with 'REQ-': ",
                              FirstWithout(self.related_requirements, "REQ-")>>)
  ELSE IF HasWithout(self.dependencies, "SPEC-")
  THEN Raised("ValueError", <<"Dependency ID must start with 'SPEC-': ",
                              FirstWithout(self.dependencies, "SPEC-")>>)
  ELSE Returned(Specification(self.id, self.related_requirements, self.dependencies))

\* Specification(**kwargs): the generated __init__ (dependencies defaults to
\* the empty list), then __post_init__.
NewSpecificationEntity(kwargs) ==
  LET error == InitError("Specification", SpecificationFields, SpecificationRequired,
                         kwargs.order)
  IN IF error # <<>> THEN Raised("TypeError", error)
     ELSE Specification_post_init(
            [kwargs EXCEPT !.dependencies =
               IF "dependencies" \in kwargs.keys THEN kwargs.dependencies ELSE <<>>])

\* The keys create_specification_from_data subscripts, in evaluation order,
\* and the keywords it passes to Specification.
SubscriptedKeys ==
  <<"id", "title", "description", "related_requirements", "implementation_unit", "unit_test">>
PassedKeywords == SubscriptedKeys \o <<"design_notes", "dependencies">>

\* SpecificationParser.create_specification_from_data
create_specification_from_data(data) ==
  IF Range(SubscriptedKeys) \ data.keys # {}
  THEN Raised("KeyError", <<SelectSeq(SubscriptedKeys, LAMBDA k : k \notin data.keys)[1]>>)
  ELSE NewSpecificationEntity(
         Fields(PassedKeywords, data.id, data.type, data.related_requirements,
                IF "dependencies" \in data.keys THEN data.dependencies ELSE <<>>))

\* SpecificationParser.parse_specifications_directory over the documents
\* the directory holds (each parsed to a dict): a document whose id starts
\* with "SPEC-" is created, one whose creation raises is skipped.
parse_specifications_directory(docs) ==
  LET kept == SelectSeq(docs, LAMBDA data :
                /\ "id" \in data.keys
                /\ StartsWith(data.id, "SPEC-")
                /\ create_specification_from_data(data).raised = "none")
  IN [i \in 1..Len(kept) |-> create_specification_from_data(kept[i]).value]

\* ---------------------------------------------------- validate command
\* The keys create_requirement_from_data subscripts, in evaluation order.
RequirementSubscriptedKeys == <<"id", "title", "description", "type", "acceptance_criteria">>

\* RequirementParser.create_requirement_from_data
create_requirement_from_data(data) ==
  IF Range(RequirementSubscriptedKeys) \ data.keys # {}
  THEN Raised("KeyError",
              <<SelectSeq(RequirementSubscriptedKeys, LAMBDA k : k \notin data.keys)[1]>>)
  ELSE NewRequirementEntity(
         Fields(RequirementSubscriptedKeys \o <<"tags", "source", "rationale">>,
                data.id, data.type, <<>>, <<>>))

\* RequirementParser.parse_requirements_directory
parse_requirements_directory(docs) ==
  LET kept == SelectSeq(docs, LAMBDA data :
                /\ "id" \in data.keys
                /\ StartsWith(data.id, "REQ-")
                /\ create_requirement_from_data(data).raised = "none")
  IN [i \in 1..Len(kept) |-> create_requirement_from_data(kept[i]).value]

\* The errors of RequirementValidator.validate_requirement /
\* SpecificationValidator.validate_specification for an entity the parser
\* built: the schemas accept the shape the constructors accept.
SchemaErrors(entity) == <<>>

\* The text of a message kept as pieces.
RECURSIVE Text(_)
Text(pieces) == IF pieces = <<>> THEN "" ELSE Head(pieces) \o Text(Tail(pieces))

\* [f"<Kind> {entity.id}: {error}" for error in result.errors] over the entities
RECURSIVE EntityErrors(_, _)
EntityErrors(kind, entities) ==
  IF entities = <<>> THEN <<>>
  ELSE LET found == SchemaErrors(Head(entities))
       IN [i \in 1..Len(found) |-> <<kind, " ", Head(entities).id, ": ">> \o found[i]]
          \o EntityErrors(kind, Tail(entities))

\* The filter of the command on result.errors.
IsHardError(error) ==
  \/ ~StartsWith(Text(error), "Specification")
  \/ ~Contains(Text(error), "references non-existent requirement")

\* The try block of the cross-reference validation: the warnings and errors
\* it adds.  The attribute lookup of get_missing_requirement_links raises
\* AttributeError when the class has no such method; except Exception then
\* records it as an error and the rest of the block is skipped.
CrossReferenceBlock(reqs, specs) ==
  LET cross_validator == NewValidator(reqs, specs)
      result == validate_cross_references(cross_validator).value
  IN IF "get_missing_requirement_links" \notin ValidatorMethods
     THEN [warnings |-> <<>>,
           errors |-> <<<<"Error in cross-reference validation: ",
                          "'CrossReferenceValidator' object has no attribute ",
                          "'get_missing_requirement_links'">>>>]
     ELSE [warnings |-> RequirementErrors(cross_validator,
                                          Values(cross_validator.specifications)),
           errors |-> IF result.is_valid THEN <<>>
                      ELSE SelectSeq(result.errors, IsHardError)]

\* success_msg
SuccessMessage(warnings) ==
  IF warnings = <<>> THEN <<"Validation successful!">>
  ELSE <<"Validation successful!", " (", ToString(Len(warnings)), " warning",
         IF Len(warnings) > 1 THEN "s" ELSE "", ")">>

\* The validate command: its exit code, its verdict, and the warnings and
\* errors it has collected.  The verdict is what the command echoes last:
\* the message about a directory that does not exist, "Validation failed:"
\* and a line for each error, or the success message.
validate(project, requirements_only, specifications_only) ==
  IF ~project.exists
  THEN [exit_code |-> 0,
        output |-> <<<<"Error: Directory ", project.directory, " does not exist">>>>,
        warnings |-> <<>>, errors |-> <<>>]
  ELSE LET found_requirements == parse_requirements_directory(project.docs)
           found_specifications == parse_specifications_directory(project.docs)
           first == IF ~specifications_only
                    THEN EntityErrors("Requirement", found_requirements) ELSE <<>>
           second == IF ~requirements_only
                     THEN EntityErrors("Specification", found_specifications) ELSE <<>>
           cross == IF ~requirements_only /\ ~specifications_only
                    THEN CrossReferenceBlock(found_requirements, found_specifications)
                    ELSE [warnings |-> <<>>, errors |-> <<>>]
           all == first \o second \o cross.errors
       IN [exit_code |-> IF all # <<>> THEN 1 ELSE 0,
           output |-> IF all # <<>>
                      THEN <<<<"Validation failed:">>>>
                             \o [i \in 1..Len(all) |-> <<"  - ">> \o all[i]]
                      ELSE <<SuccessMessage(cross.warnings)>>,
           warnings |-> cross.warnings,
           errors |-> all]

\* ------------------------------------------------------------- float
\* A Python float is an IEEE 754 double.  A natural number of any size is
\* the sequence of its bits, lowest first, without high zero bits; a
\* positive double is [m, e] with m a natural of exactly Precision bits and
\* the value m * 2^e; 0.0 is FloatZero.  (Exponent range and signs play no
\* part: the operands are counts and 100.)
Precision == 53

RECURSIVE NatBits(_)
NatBits(n) == IF n = 0 THEN <<>> ELSE <<n % 2>> \o NatBits(n \div 2)

\* a without its high zero bits
NatTrim(a) ==
  LET ones == {i \in 1..Len(a) : a[i] = 1}
  IN IF ones = {} THEN <<>>
     ELSE SubSeq(a, 1, CHOOSE i \in ones : \A j \in ones : j <= i)

\* a * 2^k
NatShl(a, k) == IF a = <<>> THEN <<>> ELSE [i \in 1..k |-> 0] \o a

\* a + b: bit i takes a carry when some lower position generates one and
\* every position between propagates it.
NatAdd(a, b) ==
  LET n == (IF Len(a) > Len(b) THEN Len(a) ELSE Len(b)) + 1
      x(i) == IF i <= Len(a) THEN a[i] ELSE 0
      y(i) == IF i <= Len(b) THEN b[i] ELSE 0
      carry(i) == \E j \in 1..(i - 1) :
                    /\ x(j) + y(j) = 2
                    /\ \A l \in (j + 1)..(i - 1) : x(l) + y(l) >= 1
  IN NatTrim([i \in 1..n |-> (x(i) + y(i) + (IF carry(i) THEN 1 ELSE 0)) % 2])

\* a * c for a machine integer c
RECURSIVE NatMul(_, _)
NatMul(a, c) ==
  IF c = 0 \/ a = <<>> THEN <<>>
  ELSE NatAdd(IF c % 2 = 1 THEN a ELSE <<>>, NatShl(NatMul(a, c \div 2), 1))

\* a <= b
NatLe(a, b) ==
  \/ Len(a) < Len(b)
  \/ /\ Len(a) = Len(b)
     /\ \/ a = b
        \/ \E i \in 1..Len(a) :
             a[i] < b[i] /\ \A j \in (i + 1)..Len(a) : a[j] = b[j]

\* 2^j mod b
RECURSIVE ModPow2(_, _)
ModPow2(j, b) ==
  IF j = 0 THEN 1 % b
  ELSE LET h == ModPow2(j \div 2, b)
       IN (h * h * (IF j % 2 = 1 THEN 2 ELSE 1)) % b

\* Quotient and remainder of a * 2^k by b, for machine integers a >= 0 and
\* b > 0: the bit of weight 2^(k - j), j >= 1, is the quotient digit that
\* long division produces from the remainder of a * 2^(j - 1).
NatQuotRem(a, k, b) ==
  LET rem(j) == ((a % b) * ModPow2(j, b)) % b
  IN [q |-> NatTrim([i \in 1..k |-> IF 2 * rem(k - i) >= b THEN 1 ELSE 0]
                      \o NatBits(a \div b)),
      r |-> rem(k)]

FloatZero == [m |-> <<>>, e |-> 0]

\* The double nearest to q * 2^e (plus something below one unit of q when
\* sticky), ties to the even mantissa.
RoundNat(q, sticky, e) ==
  IF q = <<>> THEN FloatZero
  ELSE IF Len(q) <= Precision
  THEN [m |-> NatShl(q, Precision - Len(q)), e |-> e - (Precision - Len(q))]
  ELSE LET drop == Len(q) - Precision
           kept == SubSeq(q, drop + 1, Len(q))
           low == sticky \/ \E i \in 1..(drop - 1) : q[i] = 1
           up == q[drop] = 1 /\ (low \/ kept[1] = 1)
           m1 == IF up THEN NatAdd(kept, <<1>>) ELSE kept
       IN IF Len(m1) > Precision
          THEN [m |-> Tail(m1), e |-> e + drop + 1]
          ELSE [m |-> m1, e |-> e + drop]

\* float(n)
FloatOfInt(n) == RoundNat(NatBits(n), FALSE, 0)

\* a / b for the ints a >= 0 and b > 0: true division, correctly rounded.
FloatDiv(a, b) ==
  LET k == Precision + Len(NatBits(b)) + 1
      qr == NatQuotRem(a, k, b)
  IN RoundNat(qr.q, qr.r > 0, 0 - k)

\* x * c for the float x and the int c >= 0 (float(c) is exact for the c used).
FloatMul(x, c) == RoundNat(NatMul(x.m, c), FALSE, x.e)

\* x <= y for non-negative floats
FloatLe(x, y) ==
  \/ x = FloatZero
  \/ /\ y # FloatZero
     /\ \/ x.e < y.e
        \/ x.e = y.e /\ NatLe(x.m, y.m)

\* ----------------------------------------------------- source files
\* A source file is the sequence of its statements; Render is its text on
\* disk.  ast.parse is modelled on the statements, the regular expression
\* on the text read.  A "split" statement has its name on the line after
\* def, which does not parse; "formfeed" separates with form feeds, which
\* the tokenizer takes as blanks; "cr" ends its lines with "\r" alone.
Stmt(kind, name) == [kind |-> kind, name |-> name]

RenderStmt(st) ==
  CASE st.kind = "def" -> "def " \o st.name \o "():\n    pass\n"
    [] st.kind = "method" -> "class T:\n    def " \o st.name \o "(self):\n        pass\n"
    [] st.kind = "nested" ->
         "def outer():\n    def " \o st.name \o "():\n        pass\n"
    [] st.kind = "async" -> "async def " \o st.name \o "():\n    pass\n"
    [] st.kind = "docstring" -> "\"\"\"\ndef " \o st.name \o "():\n\"\"\"\n"
    [] st.kind = "broken" -> "def " \o st.name \o "(:\n"
    [] st.kind = "split" -> "def\n" \o st.name \o "():\n    pass\n"
    [] st.kind = "formfeed" -> "\fdef\f" \o st.name \o "():\n    pass\n"
    [] st.kind = "cr" -> "pass\rdef " \o st.name \o "():\r    pass\r"

RECURSIVE Render(_)
Render(stmts) == IF stmts = <<>> THEN "" ELSE RenderStmt(Head(stmts)) \o Render(Tail(stmts))

MissingFile == [state |-> "missing", stmts |-> <<>>]
\* A path open() refuses: a directory, a file without read permission.
UnreadableFile == [state |-> "unreadable", stmts |-> <<>>]
\* A file whose bytes are no UTF-8 text: open() succeeds, f.read() does not.
UndecodableFile == [state |-> "undecodable", stmts |-> <<>>]
SourceFile(stmts) == [state |-> "file", stmts |-> stmts]

\* ast.parse(content) raises SyntaxError
SyntaxErrorIn(stmts) == \E i \in 1..Len(stmts) : stmts[i].kind \in {"broken", "split"}

\* The names of the ast.FunctionDef nodes ast.walk(tree) yields that start
\* with "test_": top-level functions, methods and nested functions alike;
\* an async def is an ast.AsyncFunctionDef, a def inside a string literal
\* is no node at all.
AstTestFunctions(stmts) ==
  {stmts[i].name : i \in {j \in 1..Len(stmts) :
                            /\ stmts[j].kind \in {"def", "method", "nested", "formfeed", "cr"}
                            /\ StartsWith(stmts[j].name, "test_")}}

\* The first position from i on whose character is no word character.
RECURSIVE SkipWord(_, _)
SkipWord(s, i) ==
  IF i <= Len(s) /\ IsWordChar(Char(s, i)) THEN SkipWord(s, i + 1) ELSE i

\* The positions ^ matches at under re.MULTILINE: the start of the text
\* and the position after each "\n".
LineStarts(content) ==
  {1} \cup {i + 1 : i \in {j \in 1..Len(content) : Char(content, j) = "\n"}}

\* The name r"^\s*def\s+(test_\w+)\s*\(" captures in a match that starts
\* at position p, "" without a match.  \s takes "\n" as any other
\* whitespace, so a match may run over several lines; each repetition takes
\* all it can, and what follows it never starts with a character it takes.
RegexAt(content, p) ==
  LET d == SkipSpace(content, p)
      n == SkipSpace(content, d + 3)
      e == SkipWord(content, n + 5)
      o == SkipSpace(content, e)
  IN IF /\ Slice(content, d, d + 2) = "def"
        /\ n > d + 3
        /\ Slice(content, n, n + 4) = "test_"
        /\ e > n + 5
        /\ Char(content, o) = "("
     THEN Slice(content, n, e - 1)
     ELSE ""

\* _extract_test_functions_regex: the set of what re.findall returns with
\* re.MULTILINE.  findall skips a line start that lies inside the match
\* before it; a match from there could only start in the leading
\* whitespace of that match and would capture the same name.
_extract_test_functions_regex(content) ==
  {RegexAt(content, p) : p \in LineStarts(content)} \ {""}

\* _get_test_functions: the set returned, or the exception that leaves the
\* method.  os.path.exists is false for a missing path; open() raises an
\* OSError for an unreadable one, which is caught; f.read() raises
\* UnicodeDecodeError for bytes that are no UTF-8, a ValueError that neither
\* except clause names; SyntaxError selects the regular expression.
_get_test_functions(fs, test_file_path) ==
  IF fs[test_file_path].state = "missing" THEN [raised |-> "none", value |-> {}]
  ELSE IF fs[test_file_path].state = "unreadable" THEN [raised |-> "none", value |-> {}]
  ELSE IF fs[test_file_path].state = "undecodable"
  THEN [raised |-> "UnicodeDecodeError", value |-> {}]
  ELSE IF SyntaxErrorIn(fs[test_file_path].stmts)
  THEN [raised |-> "none",
        value |-> _extract_test_functions_regex(ReadText(Render(fs[test_file_path].stmts)))]
  ELSE [raised |-> "none", value |-> AstTestFunctions(fs[test_file_path].stmts)]

\* ------------------------------------------------- TestCoverageAnalyzer
\* TestCoverageAnalyzer.__init__
NewAnalyzer(specs) ==
  [constructed |-> TRUE,
   unit_test_paths |-> {specs[i].unit_test : i \in 1..Len(specs)}]

\* Mutant of ParseLine: a line holding "::" is kept whole.
ParseLine_KeepFunction(line) ==
  IF line = "" \/ StartsWith(line, "#") THEN {}
  ELSE IF StartsWith(line, "tests/") \/ StartsWith(line, "test") THEN {line}
  ELSE IF Contains(line, "::") THEN {line}
  ELSE IF EndsWith(line, ".py") THEN {line}
  ELSE IF Contains(ToLower(line), "test") THEN {line}
  ELSE {}

\* What one stripped line of the log adds to executed_tests.
ParseLine(line) ==
  IF line = "" \/ StartsWith(line, "#") THEN {}
  ELSE IF StartsWith(line, "tests/") \/ StartsWith(line, "test") THEN {line}
  ELSE IF Contains(line, "::") THEN {Split(line, "::")[1]}
  ELSE IF EndsWith(line, ".py") THEN {line}
  ELSE IF Contains(ToLower(line), "test") THEN {line}
  ELSE {}

\* _parse_test_list
_parse_test_list(test_list_content) ==
  LET lines == Split(Strip(test_list_content), "\n")
  IN UNION {ParseLine(Strip(lines[i])) : i \in 1..Len(lines)}

\* Mutant of _is_function_covered: only the exact reference counts.
_is_function_covered_ExactOnly(test_file_path, function_name, executed_tests) ==
  LET function_reference == test_file_path \o "::" \o function_name
  IN \E executed_test \in executed_tests : function_reference = executed_test

\* _is_function_covered
_is_function_covered(test_file_path, function_name, executed_tests) ==
  LET function_reference == test_file_path \o "::" \o function_name
  IN \E executed_test \in executed_tests :
       \/ function_reference = executed_test
       \/ Contains(executed_test, function_reference)
       \/ Contains(executed_test, test_file_path) /\ Contains(executed_test, function_name)

\* Mutant of TestCoverageReport: the missing functions are not kept.
TestCoverageReport_NoMissing(tested_units, untested_units, tested_functions, untested_functions) ==
  [tested_units |-> tested_units,
   untested_units |-> untested_units,
   tested_functions |-> tested_functions,
   untested_functions |-> <<>>]

\* TestCoverageReport.__init__
TestCoverageReport(tested_units, untested_units, tested_functions, untested_functions) ==
  [tested_units |-> tested_units,
   untested_units |-> untested_units,
   tested_functions |-> tested_functions,
   untested_functions |-> untested_functions]

\* Mutant of Classify: a file without test functions counts as tested when
\* an executed test mentions its path.
Classify_PathFallback(self, fs, executed_tests) ==
  LET paths == self.unit_test_paths
      test_functions == [q \in paths |-> _get_test_functions(fs, q).value]
      covered == [q \in paths |->
                    {f \in test_functions[q] : _is_function_covered(q, f, executed_tests)}]
      missing == [q \in paths |-> test_functions[q] \ covered[q]]
      tested == {q \in paths :
                   \/ covered[q] # {}
                   \/ /\ test_functions[q] = {}
                      /\ \E e \in executed_tests : Contains(e, q)}
      withMissing == {q \in paths : missing[q] # {}}
  IN TestCoverageReport(
       tested,
       paths \ tested,
       [q \in tested |-> covered[q]],
       [q \in withMissing |-> missing[q]])

\* Mutant of Classify: a path with a missing function is listed as
\* untested even when another of its functions is covered.
Classify_MissingIsUntested(self, fs, executed_tests) ==
  LET paths == self.unit_test_paths
      test_functions == [q \in paths |-> _get_test_functions(fs, q).value]
      covered == [q \in paths |->
                    {f \in test_functions[q] : _is_function_covered(q, f, executed_tests)}]
      missing == [q \in paths |-> test_functions[q] \ covered[q]]
      tested == {q \in paths : covered[q] # {}}
      withMissing == {q \in paths : missing[q] # {}}
  IN TestCoverageReport(
       tested,
       (paths \ tested) \cup withMissing,
       [q \in tested |-> covered[q]],
       [q \in withMissing |-> missing[q]])

\* The loop of analyze_test_list over self.unit_test_paths and its result.
\* A dict is the function from its keys to their values.
Classify(self, fs, executed_tests) ==
  LET paths == self.unit_test_paths
      test_functions == [q \in paths |-> _get_test_functions(fs, q).value]
      covered == [q \in paths |->
                    {f \in test_functions[q] : _is_function_covered(q, f, executed_tests)}]
      missing == [q \in paths |-> test_functions[q] \ covered[q]]
      tested == {q \in paths : covered[q] # {}}
      withMissing == {q \in paths : missing[q] # {}}
  IN TestCoverageReport(
       tested,
       paths \ tested,
       [q \in tested |-> covered[q]],
       [q \in withMissing |-> missing[q]])

\* Mutant of analyze_test_list: a missing test list is read as an empty one.
analyze_test_list_EmptyLog(self, fs, test_list, order) ==
  [raised |-> "none",
   value |-> Classify(self, fs, IF test_list.exists
                                THEN _parse_test_list(ReadText(test_list.content))
                                ELSE {}),
   executed_tests |-> IF test_list.exists
                      THEN _parse_test_list(ReadText(test_list.content)) ELSE {},
   examined |-> self.unit_test_paths]

\* The orders a loop may visit the elements of a set in.
Orders(S) ==
  {o \in [1..Cardinality(S) -> S] : \A i, j \in 1..Cardinality(S) : o[i] = o[j] => i = j}

\* The orders the loop of analyze_test_list may visit self.unit_test_paths
\* in, up to what the call can tell apart: the order of a set shows only
\* in where an exception leaves the loop, so one order stands for all when
\* no declared file makes _get_test_functions raise.
IterationOrders(self, fs) ==
  IF \E q \in self.unit_test_paths : _get_test_functions(fs, q).raised # "none"
  THEN Orders(self.unit_test_paths)
  ELSE {CHOOSE o \in Orders(self.unit_test_paths) : TRUE}

\* analyze_test_list: the report, or the exception raised (value is then
\* the placeholder of NoReport: nothing is returned), its local
\* executed_tests, and the declared paths handed to _get_test_functions on
\* the way.  order is the order the
\* loop visits the set self.unit_test_paths in: an exception leaving
\* _get_test_functions leaves the loop and the method at that path.
analyze_test_list(self, fs, test_list, order) ==
  LET failing == {i \in 1..Len(order) : _get_test_functions(fs, order[i]).raised # "none"}
      first == CHOOSE i \in failing : \A j \in failing : i <= j
      executed_tests == _parse_test_list(ReadText(test_list.content))
  IN IF ~test_list.exists
     THEN [raised |-> "FileNotFoundError",
           value |-> TestCoverageReport({}, {}, <<>>, <<>>),
           executed_tests |-> {},
           examined |-> {}]
     ELSE IF failing # {}
     THEN [raised |-> _get_test_functions(fs, order[first]).raised,
           value |-> TestCoverageReport({}, {}, <<>>, <<>>),
           executed_tests |-> executed_tests,
           examined |-> {order[i] : i \in 1..first}]
     ELSE [raised |-> "none",
           value |-> Classify(self, fs, executed_tests),
           executed_tests |-> executed_tests,
           examined |-> self.unit_test_paths]

\* Mutant of get_coverage_percentage: the multiplication comes first.
get_coverage_percentage_MulFirst(r) ==
  LET total_units == Cardinality(r.tested_units) + Cardinality(r.untested_units)
  IN IF total_units = 0
     THEN FloatOfInt(100)
     ELSE FloatDiv(Cardinality(r.tested_units) * 100, total_units)

\* TestCoverageReport.get_coverage_percentage: 100.0 when no unit is
\* declared, else (len(tested) / total) * 100 in double arithmetic.
get_coverage_percentage(r) ==
  LET total_units == Cardinality(r.tested_units) + Cardinality(r.untested_units)
  IN IF total_units = 0
     THEN FloatOfInt(100)
     ELSE FloatMul(FloatDiv(Cardinality(r.tested_units), total_units), 100)

\* ------------------------------------------------------------ the inputs
\* Specification lists over the identifiers ids (one entity per position),
\* without related requirements, holding at most budget dependency entries.
RECURSIVE SpecsWithDeps(_, _)
SpecsWithDeps(ids, budget) ==
  IF ids = <<>> THEN {<<>>}
  ELSE UNION {{<<Specification(Head(ids), <<>>, d)>> \o rest :
                 rest \in SpecsWithDeps(Tail(ids), budget - Len(d))} :
              d \in SeqsUpTo(SpecIds, budget)}

\* The same without dependencies, holding at most budget related entries.
RECURSIVE SpecsWithLinks(_, _)
SpecsWithLinks(ids, budget) ==
  IF ids = <<>> THEN {<<>>}
  ELSE UNION {{<<Specification(Head(ids), r, <<>>)>> \o rest :
                 rest \in SpecsWithLinks(Tail(ids), budget - Len(r))} :
              r \in SeqsUpTo(ReqIds, budget)}

\* Identifier sequences of the caller's lists; an identifier may repeat.
SpecIdLists == SeqsUpTo(SpecIds, Cardinality(SpecIds))
ReqIdLists == SeqsUpTo(ReqIds, Cardinality(ReqIds))

RequirementList(ids) == [i \in 1..Len(ids) |-> Requirement(ids[i])]

\* ------------------------------------------------------------ behaviour
NoValidator == [requirements |-> EmptyDict, specifications |-> EmptyDict]

InitLists ==
  \/ /\ requirements = <<>>
     /\ \E ids \in SpecIdLists : specifications \in SpecsWithDeps(ids, MaxEdges)
  \/ /\ \E rids \in ReqIdLists : requirements = RequirementList(rids)
     /\ \E ids \in SpecIdLists : specifications \in SpecsWithLinks(ids, MaxLinks)

\* No coverage analysis is under way.
NoAnalyzer == [constructed |-> FALSE, unit_test_paths |-> {}]
NoReport == [raised |-> "not called",
             value |-> TestCoverageReport({}, {}, <<>>, <<>>),
             executed_tests |-> {},
             examined |-> {}]
NoPercentage == [called |-> FALSE, value |-> FloatZero]
NoExtraction == [called |-> FALSE, stmts |-> <<>>, structural |-> {}, pattern |-> {}]

CovIdle ==
  /\ cov_specifications = <<>>
  /\ files = <<>>
  /\ log = [exists |-> FALSE, content |-> ""]
  /\ analyzer = NoAnalyzer
  /\ report = NoReport
  /\ percentage = NoPercentage
  /\ extraction = NoExtraction

\* No entity has been constructed, no directory parsed.
NoCall == [op |-> "none", args |-> Fields(<<>>, "", "", <<>>, <<>>),
           raised |-> "none", message |-> <<>>, value |-> NoEntity]
NoParse == [called |-> FALSE, docs |-> <<>>, value |-> <<>>]

NoCommand == [called |-> FALSE,
              project |-> [directory |-> ".", exists |-> FALSE, docs |-> <<>>],
              requirements_only |-> FALSE, specifications_only |-> FALSE,
              exit_code |-> 0, output |-> <<>>, warnings |-> <<>>, errors |-> <<>>]

ModelIdle ==
  /\ runs = <<>>
  /\ ctor = NoCall
  /\ parsed = NoParse
  /\ cmd = NoCommand

ValidatorIdle ==
  /\ ModelIdle
  /\ constructed = FALSE
  /\ validator = NoValidator
  /\ results = <<>>
  /\ links = [outcome |-> "not called", value |-> <<>>]
  /\ wpc = "idle"
  /\ errors = <<>>
  /\ walk = [visited |-> {}, rec_stack |-> {}, cycles |-> <<>>, raised |-> "none"]
  /\ top = 1
  /\ frames = <<>>

Init ==
  /\ InitLists
  /\ CovIdle
  /\ ModelIdle
  /\ constructed = FALSE
  /\ validator = NoValidator
  /\ results = <<>>
  /\ links = [outcome |-> "not called", value |-> <<>>]
  /\ wpc = "idle"
  /\ errors = <<>>
  /\ walk = [visited |-> {}, rec_stack |-> {}, cycles |-> <<>>, raised |-> "none"]
  /\ top = 1
  /\ frames = <<>>

\* validator = CrossReferenceValidator(requirements, specifications)
Construct ==
  /\ ~constructed
  /\ constructed' = TRUE
  /\ validator' = NewValidator(requirements, specifications)
  /\ UNCHANGED <<requirements, specifications, results, links, walkVars, covVars, modelVars, runs>>

\* result = validator.validate_cross_references(), the whole call in one
\* step.  A caller whose get_missing_requirement_links() call raised does
\* not get to this call (commands.py: the except clause ends the try block).
Validate ==
  /\ constructed
  /\ wpc = "idle"
  /\ results = <<>>
  /\ links.outcome = "not called"
  /\ results' = Append(results, validate_cross_references(validator))
  /\ UNCHANGED <<requirements, specifications, constructed, validator, links, walkVars, covVars, modelVars, runs>>

\* missing_links = validator.get_missing_requirement_links(): the attribute
\* lookup on the instance finds no such method.
GetMissingRequirementLinks ==
  /\ constructed
  /\ results = <<>>
  /\ links.outcome = "not called"
  /\ links' = IF "get_missing_requirement_links" \in ValidatorMethods
              THEN [outcome |-> "returned", value |-> <<>>]
              ELSE [outcome |-> "AttributeError", value |-> <<>>]
  /\ UNCHANGED <<requirements, specifications, constructed, validator, results, walkVars, covVars, modelVars, runs>>

Next == Construct \/ Validate \/ GetMissingRequirementLinks

Spec == Init /\ [][Next]_vars

\* ------------------------------------------- the walk, one step at a time
\* An activation record of dfs: at "call" the body has not run yet, at
\* "loop" it is about to take dependency number i.
Frame(spec_id, path) == [spec_id |-> spec_id, path |-> path, at |-> "call", i |-> 1]

Innermost == frames[Len(frames)]
Pop == SubSeq(frames, 1, Len(frames) - 1)

\* validate_cross_references() up to the call of _find_circular_dependencies:
\* the two existence checks, then the fresh locals of the walk.
BeginValidate ==
  /\ constructed
  /\ wpc = "idle"
  /\ Len(results) < MaxCalls
  /\ wpc' = "walk"
  /\ errors' = RequirementErrors(validator, Values(validator.specifications))
                 \o DependencyErrors(validator, Values(validator.specifications))
  /\ walk' = NewWalk
  /\ top' = 1
  /\ frames' = <<>>
  /\ UNCHANGED <<requirements, specifications, constructed, validator, results, links, covVars, modelVars, runs>>

\* for spec_id in self.specifications: if spec_id not in visited: dfs(spec_id, [])
TopNext ==
  /\ wpc = "walk"
  /\ walk.raised = "none"
  /\ frames = <<>>
  /\ top <= Len(validator.specifications.keys)
  /\ top' = top + 1
  /\ frames' = IF validator.specifications.keys[top] \notin walk.visited
               THEN <<Frame(validator.specifications.keys[top], <<>>)>>
               ELSE <<>>
  /\ UNCHANGED <<requirements, specifications, constructed, validator, results, links,
                 wpc, errors, walk, covVars, modelVars, runs>>

\* The head of dfs: the two early returns, else mark the node and start its loop.
DfsEnter ==
  /\ wpc = "walk"
  /\ walk.raised = "none"
  /\ frames # <<>>
  /\ Innermost.at = "call"
  /\ LET f == Innermost
     IN IF Branch(walk, f.spec_id) = "cycle"
        THEN /\ walk' = RecordCycle(walk, f.spec_id, f.path)
             /\ frames' = Pop
        ELSE IF Branch(walk, f.spec_id) = "seen"
        THEN /\ walk' = walk
             /\ frames' = Pop
        ELSE /\ walk' = EnterNode(walk, f.spec_id)
             /\ frames' = [frames EXCEPT ![Len(frames)].at = "loop"]
  /\ UNCHANGED <<requirements, specifications, constructed, validator, results, links,
                 wpc, errors, top, covVars, modelVars, runs>>

\* One iteration of the loop of dfs: dfs(dep_id, path + [spec_id]).
DfsCall ==
  /\ wpc = "walk"
  /\ walk.raised = "none"
  /\ frames # <<>>
  /\ Innermost.at = "loop"
  /\ Innermost.i <= Len(Successors(validator, Innermost.spec_id))
  /\ LET f == Innermost
     IN frames' = Append([frames EXCEPT ![Len(frames)].i = f.i + 1],
                         Frame(Successors(validator, f.spec_id)[f.i], f.path \o <<f.spec_id>>))
  /\ UNCHANGED <<requirements, specifications, constructed, validator, results, links,
                 wpc, errors, walk, top, covVars, modelVars, runs>>

\* The loop of dfs is over: rec_stack.remove(spec_id) and return.
DfsReturn ==
  /\ wpc = "walk"
  /\ walk.raised = "none"
  /\ frames # <<>>
  /\ Innermost.at = "loop"
  /\ Innermost.i > Len(Successors(validator, Innermost.spec_id))
  /\ walk' = LeaveNode(walk, Innermost.spec_id)
  /\ frames' = Pop
  /\ UNCHANGED <<requirements, specifications, constructed, validator, results, links,
                 wpc, errors, top, covVars, modelVars, runs>>

\* The walk is over: extend errors with the cycle errors and return the result.
FinishValidate ==
  /\ wpc = "walk"
  /\ walk.raised = "none"
  /\ frames = <<>>
  /\ top > Len(validator.specifications.keys)
  /\ LET all == errors \o [i \in 1..Len(walk.cycles) |-> CycleError(walk.cycles[i])]
     IN /\ errors' = all
        /\ results' = Append(results, [raised |-> "none",
                                       value |-> ResultOf(all)])
  /\ wpc' = "idle"
  /\ UNCHANGED <<requirements, specifications, constructed, validator, links, walk, top, frames,
                 covVars, modelVars, runs>>

NextWalk ==
  \/ Construct
  \/ BeginValidate
  \/ TopNext
  \/ DfsEnter
  \/ DfsCall
  \/ DfsReturn
  \/ FinishValidate

\* The lists the stepwise walk is followed on: distinct identifiers, the
\* i-th specification of the list being SPEC-i.  The dependency lists stay
\* arbitrary, so every other order of a list is one of these up to a
\* renaming of the identifiers.
InitWalk ==
  /\ Init
  /\ \A i \in 1..Len(specifications) : specifications[i].id = "SPEC-" \o ToString(i)

\* The interpreter runs a started call to its end: no step waits for anything.
WalkSpec == InitWalk /\ [][NextWalk]_vars /\ WF_vars(NextWalk)

\* The lists the order of the errors is followed on: REQ-1 exists, REQ-2
\* does not; a specification has no related requirement or both of them;
\* the dependency entries are arbitrary; the first identifier may occur a
\* second time at the end of the list.
OrderLinks == {<<>>, <<"REQ-2", "REQ-1">>}

RECURSIVE SpecsWithBoth(_, _)
SpecsWithBoth(ids, budget) ==
  IF ids = <<>> THEN {<<>>}
  ELSE UNION {{<<Specification(Head(ids), r, d)>> \o rest :
                 rest \in SpecsWithBoth(Tail(ids), budget - Len(d))} :
              r \in OrderLinks, d \in SeqsUpTo(SpecIds, budget)}

InitOrder ==
  /\ requirements = RequirementList(<<"REQ-1">>)
  /\ \E ids \in {<<"SPEC-1", "SPEC-2">>, <<"SPEC-1", "SPEC-2", "SPEC-1">>} :
       specifications \in SpecsWithBoth(ids, MaxOrderEdges)
  /\ CovIdle
  /\ ValidatorIdle

\* One call per validator is followed.
OrderNext ==
  \/ Construct
  \/ BeginValidate /\ results = <<>>
  \/ TopNext
  \/ DfsEnter
  \/ DfsCall
  \/ DfsReturn
  \/ FinishValidate

OrderSpec == InitOrder /\ [][OrderNext]_vars

\* ------------------------------------------------------ two runs at once
\* Two callers, each in its own thread, each making one
\* validate_cross_references() call; their steps interleave freely.  A run
\* holds the validator it calls (object tells whether both call the same
\* instance), the position of its call and the locals of that call.
Runs == {1, 2}

NewRun(object, self) ==
  [object |-> object, self |-> self, pc |-> "idle", overlapped |-> FALSE,
   errors |-> <<>>, walk |-> NewWalk, top |-> 1, frames |-> <<>>,
   result |-> [raised |-> "not called", value |-> ResultOf(<<>>)]]

\* Mutant of Locals: visited, rec_stack and cycles read by every call are
\* those of the first caller, as if they were kept outside the call.
Locals_Shared(rs, r) == rs[1].walk

\* The visited, rec_stack and cycles the dfs closure of run r refers to:
\* the objects _find_circular_dependencies created in that very call.
Locals(rs, r) == rs[r].walk

RunInnermost(r) == runs[r].frames[Len(runs[r].frames)]
RunPop(r) == SubSeq(runs[r].frames, 1, Len(runs[r].frames) - 1)

\* Run r calls validate_cross_references(): the two existence checks, then
\* the fresh locals of _find_circular_dependencies.
RunBegin(r) ==
  /\ runs[r].pc = "idle"
  /\ runs' = [runs EXCEPT
       ![r].pc = "walk",
       ![r].overlapped = \E o \in Runs \ {r} :
                            runs[o].pc = "walk" /\ runs[o].walk.visited # {},
       ![r].errors = RequirementErrors(runs[r].self, Values(runs[r].self.specifications))
                       \o DependencyErrors(runs[r].self, Values(runs[r].self.specifications)),
       ![r].walk = NewWalk,
       ![r].top = 1,
       ![r].frames = <<>>]
  /\ UNCHANGED <<requirements, specifications, constructed, validator, results, links,
                 walkVars, covVars, modelVars>>

\* for spec_id in self.specifications: if spec_id not in visited: dfs(spec_id, [])
RunTopNext(r) ==
  /\ runs[r].pc = "walk"
  /\ runs[r].frames = <<>>
  /\ runs[r].top <= Len(runs[r].self.specifications.keys)
  /\ LET spec_id == runs[r].self.specifications.keys[runs[r].top]
     IN runs' = [runs EXCEPT
          ![r].top = @ + 1,
          ![r].frames = IF spec_id \notin Locals(runs, r).visited
                        THEN <<Frame(spec_id, <<>>)>>
                        ELSE <<>>]
  /\ UNCHANGED <<requirements, specifications, constructed, validator, results, links,
                 walkVars, covVars, modelVars>>

\* The head of dfs in run r.
RunDfsEnter(r) ==
  /\ runs[r].pc = "walk"
  /\ runs[r].frames # <<>>
  /\ RunInnermost(r).at = "call"
  /\ Locals(runs, r).raised = "none"
  /\ LET f == RunInnermost(r)
         w == Locals(runs, r)
     IN runs' = IF Branch(w, f.spec_id) = "cycle"
                THEN [runs EXCEPT ![r].walk = RecordCycle(w, f.spec_id, f.path),
                                  ![r].frames = RunPop(r)]
                ELSE IF Branch(w, f.spec_id) = "seen"
                THEN [runs EXCEPT ![r].walk = w,
                                  ![r].frames = RunPop(r)]
                ELSE [runs EXCEPT ![r].walk = EnterNode(w, f.spec_id),
                                  ![r].frames[Len(runs[r].frames)].at = "loop"]
  /\ UNCHANGED <<requirements, specifications, constructed, validator, results, links,
                 walkVars, covVars, modelVars>>

\* One iteration of the loop of dfs in run r.
RunDfsCall(r) ==
  /\ runs[r].pc = "walk"
  /\ runs[r].frames # <<>>
  /\ RunInnermost(r).at = "loop"
  /\ RunInnermost(r).i <= Len(Successors(runs[r].self, RunInnermost(r).spec_id))
  /\ LET f == RunInnermost(r)
     IN runs' = [runs EXCEPT
          ![r].frames = Append([runs[r].frames EXCEPT ![Len(runs[r].frames)].i = f.i + 1],
                               Frame(Successors(runs[r].self, f.spec_id)[f.i],
                                     f.path \o <<f.spec_id>>))]
  /\ UNCHANGED <<requirements, specifications, constructed, validator, results, links,
                 walkVars, covVars, modelVars>>

\* The loop of dfs is over in run r: rec_stack.remove(spec_id) and return.
RunDfsReturn(r) ==
  /\ runs[r].pc = "walk"
  /\ runs[r].frames # <<>>
  /\ RunInnermost(r).at = "loop"
  /\ RunInnermost(r).i > Len(Successors(runs[r].self, RunInnermost(r).spec_id))
  /\ Locals(runs, r).raised = "none"
  /\ runs' = [runs EXCEPT ![r].walk = LeaveNode(Locals(runs, r), RunInnermost(r).spec_id),
                          ![r].frames = RunPop(r)]
  /\ UNCHANGED <<requirements, specifications, constructed, validator, results, links,
                 walkVars, covVars, modelVars>>

\* The walk of run r is over: the cycle errors are appended and the
\* result returned; an exception raised in the walk leaves the call.
RunFinish(r) ==
  /\ runs[r].pc = "walk"
  /\ \/ Locals(runs, r).raised # "none"
     \/ runs[r].frames = <<>> /\ runs[r].top > Len(runs[r].self.specifications.keys)
  /\ LET w == Locals(runs, r)
         all == runs[r].errors \o [i \in 1..Len(w.cycles) |-> CycleError(w.cycles[i])]
     IN runs' = [runs EXCEPT
          ![r].pc = "done",
          ![r].result = IF w.raised # "none"
                        THEN [raised |-> w.raised, value |-> ResultOf(<<>>)]
                        ELSE [raised |-> "none", value |-> ResultOf(all)]]
  /\ UNCHANGED <<requirements, specifications, constructed, validator, results, links,
                 walkVars, covVars, modelVars>>

RunsNext ==
  \E r \in Runs :
    \/ RunBegin(r)
    \/ RunTopNext(r)
    \/ RunDfsEnter(r)
    \/ RunDfsCall(r)
    \/ RunDfsReturn(r)
    \/ RunFinish(r)

Reverse(list) == [i \in 1..Len(list) |-> list[Len(list) + 1 - i]]

\* The first caller validates the specifications; the second calls the
\* same validator, or one of its own built from the same specifications
\* in the opposite order.
RunsInit ==
  /\ requirements = <<>>
  /\ specifications \in SpecsWithDeps(<<"SPEC-1", "SPEC-2">>, MaxRunEdges)
  /\ CovIdle
  /\ ctor = NoCall
  /\ parsed = NoParse
  /\ cmd = NoCommand
  /\ constructed = FALSE
  /\ validator = NoValidator
  /\ results = <<>>
  /\ links = [outcome |-> "not called", value |-> <<>>]
  /\ wpc = "idle"
  /\ errors = <<>>
  /\ walk = NewWalk
  /\ top = 1
  /\ frames = <<>>
  /\ \/ runs = <<NewRun(1, NewValidator(requirements, specifications)),
                  NewRun(1, NewValidator(requirements, specifications))>>
     \/ runs = <<NewRun(1, NewValidator(requirements, specifications)),
                  NewRun(2, NewValidator(requirements, Reverse(specifications)))>>

RunsSpec == RunsInit /\ [][RunsNext]_vars

\* ------------------------------------------------- coverage behaviour
\* The unit_test paths the specifications may declare: one under tests/,
\* one outside it, one whose name holds the name of a test function.
Paths == {"tests/test_x.py", "src/unit_x.py", "tests/test_b.py"}

\* What a declared path may hold on disk (a path no specification declares
\* is never opened; it is left missing).
FileStates ==
  {MissingFile,
   SourceFile(<<Stmt("def", "helper")>>),
   SourceFile(<<Stmt("def", "test_a"), Stmt("def", "test_b")>>),
   SourceFile(<<Stmt("method", "test_a"), Stmt("def", "test_b"), Stmt("broken", "helper")>>)}

\* The lines a test log is made of: the function test_a of a path under
\* tests/ and of a path outside it, as a test runner reports them.
LogLines == {"tests/test_x.py::test_a PASSED", "src/unit_x.py::test_a PASSED"}

RECURSIVE JoinLines(_)
JoinLines(lines) ==
  IF lines = <<>> THEN "" ELSE Head(lines) \o "\n" \o JoinLines(Tail(lines))

CovInit ==
  /\ requirements = <<>>
  /\ specifications = <<>>
  /\ ValidatorIdle
  /\ \E units \in SeqsUpTo(Paths, MaxUnits) :
       cov_specifications = [i \in 1..Len(units) |-> [unit_test |-> units[i]]]
  /\ files \in [Paths -> FileStates]
  /\ \A q \in Paths :
       (\A i \in 1..Len(cov_specifications) : cov_specifications[i].unit_test # q)
         => files[q] = MissingFile
  /\ \/ log = [exists |-> FALSE, content |-> ""]
     \/ \E lines \in SeqsUpTo(LogLines, MaxLogLines) :
          log = [exists |-> TRUE, content |-> JoinLines(lines)]
  /\ analyzer = NoAnalyzer
  /\ report = NoReport
  /\ percentage = NoPercentage
  /\ extraction = NoExtraction

\* analyzer = TestCoverageAnalyzer(specifications)
ConstructAnalyzer ==
  /\ ~analyzer.constructed
  /\ analyzer' = NewAnalyzer(cov_specifications)
  /\ UNCHANGED <<requirements, specifications, constructed, validator, results, links,
                 walkVars, modelVars, runs, cov_specifications, files, log, report, percentage,
                 extraction>>

\* report = analyzer.analyze_test_list(test_list_file)
AnalyzeTestList ==
  /\ analyzer.constructed
  /\ report.raised = "not called"
  /\ \E order \in IterationOrders(analyzer, files) :
       report' = analyze_test_list(analyzer, files, log, order)
  /\ UNCHANGED <<requirements, specifications, constructed, validator, results, links,
                 walkVars, modelVars, runs, cov_specifications, files, log, analyzer, percentage,
                 extraction>>

\* coverage_percent = report.get_coverage_percentage()
GetCoveragePercentage ==
  /\ report.raised = "none"
  /\ ~percentage.called
  /\ percentage' = [called |-> TRUE, value |-> get_coverage_percentage(report.value)]
  /\ UNCHANGED <<requirements, specifications, constructed, validator, results, links,
                 walkVars, modelVars, runs, cov_specifications, files, log, analyzer, report,
                 extraction>>

\* The statements a source text is made of: the kinds Render knows, with a
\* test name, the bare prefix, and a name that is no test.
StmtKinds ==
  {"def", "method", "nested", "async", "docstring", "broken", "split", "formfeed", "cr"}
StmtNames == {"test_a", "test_", "helper"}
Stmts == {Stmt(k, n) : k \in StmtKinds, n \in StmtNames}

\* Both extractions of _get_test_functions applied to one source text: the
\* walk over the parsed tree (SyntaxError when it does not parse) and
\* _extract_test_functions_regex.
ExtractTestFunctions ==
  /\ ~extraction.called
  /\ \E stmts \in SeqsUpTo(Stmts, MaxStmts) :
       extraction' = [called |-> TRUE, stmts |-> stmts,
                      structural |-> IF SyntaxErrorIn(stmts) THEN {"SyntaxError"}
                                     ELSE AstTestFunctions(stmts),
                      pattern |-> _extract_test_functions_regex(ReadText(Render(stmts)))]
  /\ UNCHANGED <<requirements, specifications, constructed, validator, results, links,
                 walkVars, modelVars, runs, cov_specifications, files, log, analyzer, report,
                 percentage>>

ExtractInit ==
  /\ requirements = <<>>
  /\ specifications = <<>>
  /\ ValidatorIdle
  /\ CovIdle

ExtractNext == ExtractTestFunctions

ExtractSpec == ExtractInit /\ [][ExtractNext]_vars

CovNext == ConstructAnalyzer \/ AnalyzeTestList \/ GetCoveragePercentage

CovSpec == CovInit /\ [][CovNext]_vars

\* The inputs the percentage is followed on: the first k of the paths
\* tests/test_1.py, tests/test_2.py, ... are declared, each file holds the
\* function test_a, and the log names that function for some of them.
UnitPath(i) == "tests/test_" \o ToString(i) \o ".py"

PctInit ==
  /\ requirements = <<>>
  /\ specifications = <<>>
  /\ ValidatorIdle
  /\ \E k \in 0..MaxFiles :
       /\ cov_specifications = [i \in 1..k |-> [unit_test |-> UnitPath(i)]]
       /\ files = [q \in {UnitPath(i) : i \in 1..k} |-> SourceFile(<<Stmt("def", "test_a")>>)]
       /\ \E ran \in SUBSET (1..k) :
            LET order == SelectSeq([i \in 1..k |-> i], LAMBDA i : i \in ran)
            IN log = [exists |-> TRUE,
                      content |-> JoinLines([j \in 1..Len(order) |->
                                               UnitPath(order[j]) \o "::test_a PASSED"])]
  /\ analyzer = NoAnalyzer
  /\ report = NoReport
  /\ percentage = NoPercentage
  /\ extraction = NoExtraction

PctSpec == PctInit /\ [][CovNext]_vars

\* The inputs the reading of a declared file is followed on: besides the
\* states of FileStates, a declared path may be unreadable or hold bytes
\* that are no UTF-8; the log exists and names test_a of some paths.
ReadFileStates == FileStates \cup {UnreadableFile, UndecodableFile}

ReadInit ==
  /\ requirements = <<>>
  /\ specifications = <<>>
  /\ ValidatorIdle
  /\ \E units \in SeqsUpTo(Paths, MaxUnits) :
       cov_specifications = [i \in 1..Len(units) |-> [unit_test |-> units[i]]]
  /\ files \in [Paths -> ReadFileStates]
  /\ \A q \in Paths :
       (\A i \in 1..Len(cov_specifications) : cov_specifications[i].unit_test # q)
         => files[q] = MissingFile
  /\ \E ran \in SUBSET {"tests/test_x.py", "src/unit_x.py"} :
       log = [exists |-> TRUE,
              content |-> JoinLines(SelectSeq(<<"tests/test_x.py", "src/unit_x.py">>,
                                              LAMBDA q : q \in ran))]
  /\ analyzer = NoAnalyzer
  /\ report = NoReport
  /\ percentage = NoPercentage
  /\ extraction = NoExtraction

ReadSpec == ReadInit /\ [][CovNext]_vars

\* The inputs the reading of the test list is followed on: no unit is
\* declared, and the log is made of lines of every form _parse_test_list
\* tells apart, with and without surrounding whitespace (a form feed
\* too), the last line with and without its newline; one entry is two
\* lines that a "\r" alone separates, one has its capitals outside ASCII.
ParseLines ==
  {"tests/test_x.py::test_a PASSED", "test_b.py", "src/unit_x.py::test_a",
   "  lib/a::b::c \r", "::test_a", "src/unit_x.py", "\tsrc/unit_y.py  ",
   "My_TEST run", "PASSED", "# tests/test_x.py", "  # src/unit_x.py::test_a",
   "", " \t", "a::b\rtests/t.py", "\fÉTÉ TESTÉ\f"}

LogInit ==
  /\ requirements = <<>>
  /\ specifications = <<>>
  /\ ValidatorIdle
  /\ cov_specifications = <<>>
  /\ files = [q \in Paths |-> MissingFile]
  /\ \E lines \in SeqsUpTo(ParseLines, MaxLogLines) :
       \/ log = [exists |-> TRUE, content |-> JoinLines(lines)]
       \/ log = [exists |-> TRUE, content |-> Text(Join(lines, "\n"))]
  /\ analyzer = NoAnalyzer
  /\ report = NoReport
  /\ percentage = NoPercentage
  /\ extraction = NoExtraction

LogSpec == LogInit /\ [][CovNext]_vars

\* The inputs the matching of functions against executed tests is followed
\* on: tests/test_x.py holds test_a and test_b, src/unit_x.py holds test_a,
\* tests/test_b.py holds test_b and a helper; the declared paths are any
\* few of them.  The log lines give an exact reference, a reference inside
\* a longer line, path and function apart in one line, a bare path that
\* holds a function name, a path alone and a function alone.
MatchFiles ==
  [q \in Paths |->
     IF q = "tests/test_x.py" THEN SourceFile(<<Stmt("def", "test_a"), Stmt("def", "test_b")>>)
     ELSE IF q = "src/unit_x.py" THEN SourceFile(<<Stmt("def", "test_a")>>)
     ELSE SourceFile(<<Stmt("method", "test_b"), Stmt("def", "helper")>>)]

MatchLines ==
  {"tests/test_x.py::test_a", "tests/test_x.py::test_b PASSED", "test_a (src/unit_x.py)",
   "tests/test_b.py", "src/unit_x.py::test_a", "run test_a"}

PathOrder == <<"tests/test_x.py", "src/unit_x.py", "tests/test_b.py">>

MatchInit ==
  /\ requirements = <<>>
  /\ specifications = <<>>
  /\ ValidatorIdle
  /\ \E declared \in {S \in SUBSET Paths : Cardinality(S) <= MaxUnits} :
       LET units == SelectSeq(PathOrder, LAMBDA q : q \in declared)
       IN cov_specifications = [i \in 1..Len(units) |-> [unit_test |-> units[i]]]
  /\ files = MatchFiles
  /\ \E lines \in SeqsUpTo(MatchLines, MaxLogLines) :
       log = [exists |-> TRUE, content |-> JoinLines(lines)]
  /\ analyzer = NoAnalyzer
  /\ report = NoReport
  /\ percentage = NoPercentage
  /\ extraction = NoExtraction

MatchSpec == MatchInit /\ [][CovNext]_vars

\* ------------------------------------------------ construction behaviour
\* What a caller may pass as an identifier and as a type.
CandidateIds == {"REQ-1", "SPEC-1", "REQ", "spec-1"}
CandidateTypes == ValidTypes \cup {"Functional", ""}

SixKeys == Range(SubscriptedKeys)

\* The fields without a default, in declaration order, and a list
\* without some of its names.
RequirementKeywords == SelectSeq(RequirementFields, LAMBDA k : k \in RequirementRequired)
SpecificationKeywords == SelectSeq(SpecificationFields, LAMBDA k : k \in SpecificationRequired)
Without(keys, names) == SelectSeq(keys, LAMBDA k : k \notin names)

\* The keywords of the Requirement(...) calls, in the order written: the
\* five fields, the five without acceptance_criteria or without it and the
\* id, the five followed by one or two keywords that are fields of
\* Specification only, and the five followed by self.
RequirementKeySets ==
  {RequirementKeywords, Without(RequirementKeywords, {"acceptance_criteria"}),
   Without(RequirementKeywords, {"id", "acceptance_criteria"}),
   RequirementKeywords \o <<"dependencies">>,
   RequirementKeywords \o <<"design_notes", "dependencies">>,
   RequirementKeywords \o <<"self", "dependencies">>}

\* The keywords of the Specification(...) calls, in the order written: with
\* and without test_criteria, with and without dependencies, with one or
\* two keywords that are fields of Requirement only, and with self after
\* such a keyword.
SpecificationKeySets ==
  {SpecificationKeywords, SpecificationKeywords \o <<"dependencies">>,
   SubscriptedKeys, SubscriptedKeys \o <<"dependencies">>, SubscriptedKeys \o <<"type">>,
   SpecificationKeywords \o <<"rationale", "acceptance_criteria">>,
   SubscriptedKeys \o <<"type", "self">>}

\* The keys of the documents handed to create_specification_from_data.
DataKeySets ==
  {SubscriptedKeys, SubscriptedKeys \o <<"dependencies">>,
   SubscriptedKeys \o <<"test_criteria">>,
   SubscriptedKeys \o <<"test_criteria", "dependencies">>,
   Without(SubscriptedKeys, {"unit_test"})}

Call(op, args, outcome) ==
  [op |-> op, args |-> args,
   raised |-> outcome.raised, message |-> outcome.message, value |-> outcome.value]

ModelInit ==
  /\ requirements = <<>>
  /\ specifications = <<>>
  /\ ValidatorIdle
  /\ CovIdle

\* Requirement(id=..., title=..., description=..., type=..., acceptance_criteria=...)
NewRequirement ==
  /\ ctor.op = "none"
  /\ ~parsed.called
  /\ ~cmd.called
  /\ \E keys \in RequirementKeySets, id \in CandidateIds, type \in CandidateTypes :
       LET kwargs == Fields(keys, id, type, <<>>, <<>>)
       IN ctor' = Call("Requirement", kwargs, NewRequirementEntity(kwargs))
  /\ UNCHANGED <<requirements, specifications, constructed, validator, results, links,
                 walkVars, covVars, runs, parsed, cmd>>

\* Specification(id=..., ..., related_requirements=..., [test_criteria=...,] [dependencies=...])
NewSpecification ==
  /\ ctor.op = "none"
  /\ ~parsed.called
  /\ ~cmd.called
  /\ \E keys \in SpecificationKeySets, id \in CandidateIds,
        rel \in SeqsUpTo(CandidateIds, MaxRefs), deps \in SeqsUpTo(CandidateIds, MaxRefs) :
       /\ "dependencies" \notin Range(keys) => deps = <<>>
       /\ LET kwargs == Fields(keys, id, "", rel, deps)
          IN ctor' = Call("Specification", kwargs, NewSpecificationEntity(kwargs))
  /\ UNCHANGED <<requirements, specifications, constructed, validator, results, links,
                 walkVars, covVars, runs, parsed, cmd>>

\* SpecificationParser().create_specification_from_data(data)
CreateSpecificationFromData ==
  /\ ctor.op = "none"
  /\ ~parsed.called
  /\ ~cmd.called
  /\ \E keys \in DataKeySets, id \in CandidateIds,
        rel \in SeqsUpTo(CandidateIds, MaxRefs), deps \in SeqsUpTo(CandidateIds, MaxRefs) :
       /\ "dependencies" \notin Range(keys) => deps = <<>>
       /\ LET data == Fields(keys, id, "", rel, deps)
          IN ctor' = Call("create_specification_from_data", data,
                          create_specification_from_data(data))
  /\ UNCHANGED <<requirements, specifications, constructed, validator, results, links,
                 walkVars, covVars, runs, parsed, cmd>>

\* The documents a project directory may hold: specification documents with
\* the six keys, with test_criteria and with dependencies, a requirement
\* document, and a specification document with a malformed reference.
Documents ==
  {Fields(SubscriptedKeys, "SPEC-1", "", <<"REQ-1">>, <<>>),
   Fields(SubscriptedKeys \o <<"test_criteria", "dependencies">>, "SPEC-2", "",
          <<"REQ-1">>, <<"SPEC-1">>),
   Fields(RequirementKeywords, "REQ-1", "functional", <<>>, <<>>),
   Fields(SubscriptedKeys, "SPEC-3", "", <<"spec-1">>, <<>>)}

\* SpecificationParser().parse_specifications_directory(directory)
ParseSpecificationsDirectory ==
  /\ ~parsed.called
  /\ ctor.op = "none"
  /\ ~cmd.called
  /\ \E docs \in SeqsUpTo(Documents, MaxDocs) :
       parsed' = [called |-> TRUE, docs |-> docs,
                  value |-> parse_specifications_directory(docs)]
  /\ UNCHANGED <<requirements, specifications, constructed, validator, results, links,
                 walkVars, covVars, runs, ctor, cmd>>

\* The documents of a project: a requirement, a specification that
\* references it, one that references an absent requirement, one that
\* depends on an absent specification, one that depends on itself.
ProjectDocuments ==
  {Fields(RequirementKeywords, "REQ-1", "functional", <<>>, <<>>),
   Fields(SpecificationKeywords, "SPEC-1", "", <<"REQ-1">>, <<>>),
   Fields(SpecificationKeywords, "SPEC-2", "", <<"REQ-2">>, <<>>),
   Fields(SpecificationKeywords \o <<"dependencies">>, "SPEC-3", "", <<"REQ-1">>, <<"SPEC-9">>),
   Fields(SpecificationKeywords \o <<"dependencies">>, "SPEC-4", "", <<"REQ-1">>, <<"SPEC-4">>)}

\* The directories the command is run on: the default, which exists, and
\* two that may not.
Directories == {".", "absent", "docs/project"}

\* cdlreq validate [--directory D] [-r] [-s]
ValidateCommand ==
  /\ ~cmd.called
  /\ ctor.op = "none"
  /\ ~parsed.called
  /\ \E directory \in Directories, exists \in BOOLEAN,
        docs \in SeqsUpTo(ProjectDocuments, MaxDocs),
        requirements_only \in BOOLEAN, specifications_only \in BOOLEAN :
       /\ ~exists => docs = <<>>
       /\ directory = "." => exists
       /\ directory = "absent" => ~exists
       /\ LET project == [directory |-> directory, exists |-> exists, docs |-> docs]
              out == validate(project, requirements_only, specifications_only)
          IN cmd' = [called |-> TRUE, project |-> project,
                     requirements_only |-> requirements_only,
                     specifications_only |-> specifications_only,
                     exit_code |-> out.exit_code, output |-> out.output,
                     warnings |-> out.warnings, errors |-> out.errors]
  /\ UNCHANGED <<requirements, specifications, constructed, validator, results, links,
                 walkVars, covVars, runs, ctor, parsed>>

ModelNext ==
  \/ NewRequirement
  \/ NewSpecification
  \/ CreateSpecificationFromData
  \/ ParseSpecificationsDirectory
  \/ ValidateCommand

ModelSpec == ModelInit /\ [][ModelNext]_vars


\* ============================================================== claims
\* What the claims speak of, read off the caller's lists.
IndexedIds == {specifications[i].id : i \in 1..Len(specifications)}
PresentReqIds == {requirements[i].id : i \in 1..Len(requirements)}

\* The entity the index holds for sid: the last one of the list with that id.
Indexed(sid) ==
  specifications[CHOOSE i \in 1..Len(specifications) :
                    /\ specifications[i].id = sid
                    /\ \A j \in (i + 1)..Len(specifications) : specifications[j].id # sid]

Occurrences(list, x) == Cardinality({i \in 1..Len(list) : list[i] = x})

\* The errors of the n-th validate_cross_references() call.
ErrorsOf(n) == results[n].value.errors

DanglingReqText(sid, rid) ==
  <<"Specification ", sid, " references non-existent requirement ", rid>>
DanglingDepText(sid, did) ==
  <<"Specification ", sid, " depends on non-existent specification ", did>>

IsReqError(e) == Len(e) = 4 /\ e[3] = " references non-existent requirement "
IsDepError(e) == Len(e) = 4 /\ e[3] = " depends on non-existent specification "
IsCycleError(e) == Len(e) >= 1 /\ e[1] = "Circular dependency detected: "

\* The (specification id, requirement id) pairs of the dangling related
\* requirements, specifications in index order, requirements in declared order.
RECURSIVE DanglingPairs(_)
DanglingPairs(ids) ==
  IF ids = <<>> THEN <<>>
  ELSE LET rel == SelectSeq(Indexed(Head(ids)).related_requirements,
                            LAMBDA r : r \notin PresentReqIds)
       IN [i \in 1..Len(rel) |-> <<Head(ids), rel[i]>>] \o DanglingPairs(Tail(ids))

\* C1: get_missing_requirement_links() returns the list of the dangling
\* (specification id, requirement id) pairs, each once and no other pair.
C1_MissingLinksReturned ==
  links.outcome # "not called" =>
    /\ links.outcome = "returned"
    /\ \A sid \in SpecIds, rid \in ReqIds :
         Occurrences(links.value, <<sid, rid>>) =
           IF /\ sid \in IndexedIds
              /\ rid \notin PresentReqIds
              /\ rid \in Range(Indexed(sid).related_requirements)
           THEN 1 ELSE 0

\* C2: validate_cross_references() holds one dangling-requirement error per
\* occurrence of an absent requirement id in an indexed specification, all of
\* them (no stop at the first), and none for a requirement that is present.
C2_OneErrorPerDanglingOccurrence ==
  \A n \in 1..Len(results) :
    /\ \A sid \in SpecIds, rid \in ReqIds :
         Occurrences(ErrorsOf(n), DanglingReqText(sid, rid)) =
           IF sid \in IndexedIds /\ rid \notin PresentReqIds
           THEN Occurrences(Indexed(sid).related_requirements, rid)
           ELSE 0
    /\ \A i \in 1..Len(ErrorsOf(n)) :
         IsReqError(ErrorsOf(n)[i]) =>
           \E sid \in SpecIds, rid \in ReqIds : ErrorsOf(n)[i] = DanglingReqText(sid, rid)

\* C2 witness: a result with two dangling-requirement errors next to a
\* reference to a requirement that is present.
C2_Witness ==
  \E n \in 1..Len(results) :
    /\ Cardinality({i \in 1..Len(ErrorsOf(n)) : IsReqError(ErrorsOf(n)[i])}) >= 2
    /\ \E sid \in IndexedIds :
         Range(Indexed(sid).related_requirements) \cap PresentReqIds # {}

\* C3: the dangling-dependency error of (S, D) is among the errors exactly
\* when S is indexed, D is one of its dependencies and D is not indexed.
C3_DanglingDependencyReported ==
  \A n \in 1..Len(results) :
    \A sid \in SpecIds, did \in SpecIds :
      (DanglingDepText(sid, did) \in Range(ErrorsOf(n)))
        <=> /\ sid \in IndexedIds
            /\ did \in Range(Indexed(sid).dependencies)
            /\ did \notin IndexedIds

\* C3 witness: a result for a specification with one dependency that is
\* indexed and one that is not.
C3_Witness ==
  \E n \in 1..Len(results) :
    \E sid \in IndexedIds :
      /\ Range(Indexed(sid).dependencies) \cap IndexedIds # {}
      /\ Range(Indexed(sid).dependencies) \ IndexedIds # {}
      /\ \E i \in 1..Len(ErrorsOf(n)) : IsDepError(ErrorsOf(n)[i])

\* C4: the returned result is valid exactly when it has no errors, and its
\* truth value is its is_valid flag.
C4_ValidIffNoErrors ==
  \A n \in 1..Len(results) :
    /\ results[n].value.is_valid <=> (ErrorsOf(n) = <<>>)
    /\ Bool(results[n].value) <=> (ErrorsOf(n) = <<>>)

\* C4 witness: an invalid result whose errors are the cycle errors alone,
\* the last ones to be added before the flag is computed.
C4_Witness ==
  \E n \in 1..Len(results) :
    /\ ~results[n].value.is_valid
    /\ ErrorsOf(n) # <<>>
    /\ \A i \in 1..Len(ErrorsOf(n)) : IsCycleError(ErrorsOf(n)[i])

\* ------------------------------------------------- the dependency graph
\* x declares the dependency y.
Edge(x, y) == x \in IndexedIds /\ y \in Range(Indexed(x).dependencies)

\* The dependency entries of x that name an indexed specification.
InDeps(x) == SelectSeq(Indexed(x).dependencies, LAMBDA d : d \in IndexedIds)

\* The position at which sid first occurs in the caller's list.
FirstPos(sid) ==
  CHOOSE i \in 1..Len(specifications) :
    /\ specifications[i].id = sid
    /\ \A j \in 1..(i - 1) : specifications[j].id # sid

\* The path a cycle error names: the pieces between the " -> " separators.
PathOf(e) == [i \in 1..(Len(e) \div 2) |-> e[2 * i]]

\* The text of the cycle error for a path.
CycleText(path) ==
  [i \in 1..(2 * Len(path)) |->
     IF i = 1 THEN "Circular dependency detected: "
     ELSE IF i % 2 = 0 THEN path[i \div 2] ELSE " -> "]

CycleErrorsOf(n) == SelectSeq(ErrorsOf(n), IsCycleError)

\* The simple cycles of the graph of the indexed specifications, each as
\* the sequence of its members from one of them.
SimpleCycles ==
  {c \in SeqsUpTo(IndexedIds, Cardinality(IndexedIds)) :
     /\ c # <<>>
     /\ \A i, j \in 1..Len(c) : c[i] = c[j] => i = j
     /\ \A i \in 1..Len(c) : Edge(c[i], c[(i % Len(c)) + 1])}

\* The members of the cycle when the entries among indexed specifications
\* are exactly the edges of one simple cycle, {} otherwise.
RECURSIVE Follow(_, _)
Follow(x, k) == IF k = 0 THEN x ELSE Follow(InDeps(x)[1], k - 1)

CycleMembers == {x \in IndexedIds : InDeps(x) # <<>>}

CycleStart == CHOOSE x \in CycleMembers : \A y \in CycleMembers : FirstPos(x) <= FirstPos(y)

ExactlyOneSimpleCycle ==
  /\ CycleMembers # {}
  /\ \A x \in CycleMembers : Len(InDeps(x)) = 1 /\ InDeps(x)[1] \in CycleMembers
  /\ Follow(CycleStart, Cardinality(CycleMembers)) = CycleStart
  /\ \A y \in CycleMembers :
       \E k \in 0..(Cardinality(CycleMembers) - 1) : Follow(CycleStart, k) = y

\* C5: when the dependency entries among the indexed specifications are
\* exactly the edges of one simple cycle (each entry counted as an edge;
\* entries naming absent specifications are not edges among indexed ones),
\* the result has exactly one cycle error, whatever the order of the list;
\* its path starts at the member first in the list, follows the
\* dependencies and ends by repeating the first member.
C5_OneCycleOneError ==
  \A n \in 1..Len(results) :
    ExactlyOneSimpleCycle =>
      CycleErrorsOf(n) =
        <<CycleText([k \in 1..(Cardinality(CycleMembers) + 1) |-> Follow(CycleStart, k - 1)])>>

\* C5 witness: a three-member cycle that is not entered at the smallest
\* identifier has been validated.
C5_Witness ==
  /\ Len(results) >= 1
  /\ ExactlyOneSimpleCycle
  /\ Cardinality(CycleMembers) = 3
  /\ CycleStart # "SPEC-1"

\* p, a path that repeats its first member at the end, is the cycle c from
\* some starting member.
IsRotation(p, c) ==
  /\ Len(p) = Len(c) + 1
  /\ \E r \in 0..(Len(c) - 1) :
       \A i \in 1..Len(p) : p[i] = c[((i - 1 + r) % Len(c)) + 1]

\* C7 as stated: every simple cycle of the graph is the path of some
\* cycle error.
C7_EveryCycleReported ==
  \A n \in 1..Len(results) :
    \A c \in SimpleCycles :
      \E i \in 1..Len(CycleErrorsOf(n)) : IsRotation(PathOf(CycleErrorsOf(n)[i]), c)

\* C7 amended: every simple cycle of the graph shares a dependency edge
\* with the path of some cycle error.
C7_EveryCycleTouched ==
  \A n \in 1..Len(results) :
    \A c \in SimpleCycles :
      \E i \in 1..Len(CycleErrorsOf(n)) :
        LET p == PathOf(CycleErrorsOf(n)[i])
        IN \E a \in 1..(Len(p) - 1), b \in 1..Len(c) :
             p[a] = c[b] /\ p[a + 1] = c[(b % Len(c)) + 1]

\* C7 witness: a graph with two simple cycles through the same member has
\* been validated and one of them is not reported as such.
C7_Witness ==
  \E n \in 1..Len(results) :
    \E c \in SimpleCycles :
      /\ Len(c) >= 2
      /\ \A i \in 1..Len(CycleErrorsOf(n)) : ~IsRotation(PathOf(CycleErrorsOf(n)[i]), c)

\* Is there a directed cycle among the indexed specifications?
Acyclic == SimpleCycles = {}

\* C8: the path of every cycle error has at least two entries, ends where it
\* starts, and each consecutive pair is a declared dependency of an indexed
\* specification; an acyclic graph yields no cycle error.
C8_ReportedCyclesAreGenuine ==
  \A n \in 1..Len(results) :
    /\ \A i \in 1..Len(CycleErrorsOf(n)) :
         LET e == CycleErrorsOf(n)[i]
             p == PathOf(e)
         IN /\ e = CycleText(p)
            /\ Len(p) >= 2
            /\ p[1] = p[Len(p)]
            /\ \A a \in 1..(Len(p) - 1) : Edge(p[a], p[a + 1])
    /\ Acyclic => CycleErrorsOf(n) = <<>>

\* C8 witness: a cycle entered from a specification outside it has been
\* reported, and so has been an acyclic chain with none.
C8_Witness ==
  \E n \in 1..Len(results) :
    \E i \in 1..Len(CycleErrorsOf(n)) :
      LET p == PathOf(CycleErrorsOf(n)[i])
      IN \E x \in IndexedIds : x \notin Range(p) /\ Edge(x, p[1]) /\ FirstPos(x) < FirstPos(p[1])

\* The stepwise walk returns what the call computes in one piece.
WalkMatchesCall ==
  \A n \in 1..Len(results) : results[n] = validate_cross_references(validator)

\* The activation records of dfs never outnumber the indexed specifications
\* by more than one.
DepthBounded == Len(frames) <= Len(validator.specifications.keys) + 1

\* C6: the depth-first walk never descends beyond the indexed specifications
\* and every started validate_cross_references() call returns, whatever the
\* dependency relation (self-dependencies, overlapping cycles, repeated
\* entries, entries naming absent specifications).
C6_Terminates == []DepthBounded /\ ((wpc = "walk") ~> (wpc = "idle"))

\* C6 witness: a call has returned for a graph with a self-dependency, a
\* repeated entry, an entry naming an absent specification and two cycles
\* through one member.
C6_Witness ==
  /\ Len(results) >= 1
  /\ \E x \in IndexedIds : Edge(x, x)
  /\ \E x \in IndexedIds : \E d \in SpecIds : Occurrences(Indexed(x).dependencies, d) >= 2
  /\ \E x \in IndexedIds : Range(Indexed(x).dependencies) \ IndexedIds # {}

\* C9: a validate_cross_references() step changes neither index nor any
\* entity of the caller's lists, and every call on the same validator
\* returns the same flag and the same errors in the same order.
C9_Idempotent ==
  [][/\ constructed => UNCHANGED <<validator, requirements, specifications>>
     /\ \A m, n \in 1..Len(results') : results'[m] = results'[n]]_vars

\* C9 witness: two calls have returned for a graph with two cycles through
\* one member and an entry naming an absent specification.
C9_Witness ==
  /\ Len(results) = MaxCalls
  /\ Len(ErrorsOf(1)) >= 3
  /\ \E i \in 1..Len(ErrorsOf(1)) : IsDepError(ErrorsOf(1)[i])
  /\ Len(CycleErrorsOf(1)) >= 2

\* ------------------------------------------------------------ coverage
DeclaredPaths == {cov_specifications[i].unit_test : i \in 1..Len(cov_specifications)}

LogHasLine(line) ==
  /\ log.exists
  /\ \E i \in 1..Len(Split(log.content, "\n")) : Split(log.content, "\n")[i] = line

\* C10: for a declared path P whose extracted test functions are test_a and
\* test_b and a log with the line "P::test_a PASSED" that does not mention
\* test_b, the report has P tested, test_a among the tested functions of P,
\* test_b among its untested functions, and the percentage is 100 when P is
\* the only declared file.
C10_PartialCoverage ==
  report.raised # "not called" =>
    \A P \in DeclaredPaths :
      (/\ _get_test_functions(files, P).value = {"test_a", "test_b"}
       /\ LogHasLine(P \o "::test_a PASSED")
       /\ ~Contains(log.content, "test_b"))
      => /\ report.raised = "none"
         /\ P \in report.value.tested_units
         /\ P \in DOMAIN report.value.tested_functions
         /\ "test_a" \in report.value.tested_functions[P]
         /\ P \in DOMAIN report.value.untested_functions
         /\ "test_b" \in report.value.untested_functions[P]
         /\ DeclaredPaths = {P} =>
              get_coverage_percentage(report.value) = FloatOfInt(100)

\* C11: a declared unit-test file that is missing on disk, or in which no
\* test function is found, is in untested_units, not in tested_units and no
\* key of tested_functions, whatever the log holds.
C11_NoFunctionsUntested ==
  report.raised = "none" =>
    \A P \in DeclaredPaths :
      (files[P].state = "missing" \/ _get_test_functions(files, P).value = {})
      => /\ P \in report.value.untested_units
         /\ P \notin report.value.tested_units
         /\ P \notin DOMAIN report.value.tested_functions

\* C11 witness: a report for a log that names, function included, a declared
\* file that is missing, next to a declared file without test functions.
C11_Witness ==
  /\ report.raised = "none"
  /\ \E P \in DeclaredPaths :
       /\ files[P].state = "missing"
       /\ LogHasLine(P \o "::test_a PASSED")
       /\ P \o "::test_a PASSED" \in _parse_test_list(log.content)
       /\ P \in report.value.untested_units
  /\ \E Q \in DeclaredPaths :
       /\ files[Q].state = "file"
       /\ _get_test_functions(files, Q).value = {}
       /\ Q \in report.value.untested_units

\* ---------------------------------------------------------- percentage
\* f is the double nearest to A * 2^a / D (A a natural, D a positive machine
\* integer), ties to the even mantissa: the distance is at most half a unit
\* of the last place of f, a quarter below a power of two.
NearestDouble(f, A, a, D) ==
  IF A = <<>> THEN f = FloatZero
  ELSE LET z == IF a < f.e - 1 THEN a ELSE f.e - 1
           F == NatShl(NatMul(f.m, D), f.e - z)
           X == NatShl(A, a - z)
           H == NatShl(NatBits(D), f.e - 1 - z)
       IN /\ Len(f.m) = Precision
          /\ f.m[Precision] = 1
          /\ NatLe(F, NatAdd(X, H))
          /\ NatLe(X, NatAdd(F, H))
          /\ (F = NatAdd(X, H) \/ X = NatAdd(F, H)) => f.m[1] = 0
          /\ ((\A i \in 1..(Precision - 1) : f.m[i] = 0) /\ ~NatLe(F, X))
               => NatLe(NatAdd(F, F), NatAdd(NatAdd(X, X), H))

IsHundred(v) == NearestDouble(v, NatBits(100), 0, 1)

TestedCount == Cardinality(report.value.tested_units)
TotalCount == Cardinality(report.value.tested_units) + Cardinality(report.value.untested_units)

\* What C12 says beside the formula: 100.0 and two empty sets when no file
\* is declared, a value from 0 to 100, 100 exactly when no file is untested.
PercentageFrame ==
  /\ DeclaredPaths = {} =>
       /\ report.value.tested_units = {}
       /\ report.value.untested_units = {}
       /\ IsHundred(percentage.value)
  /\ FloatLe(FloatZero, percentage.value)
  /\ FloatLe(percentage.value, FloatOfInt(100))
  /\ IsHundred(percentage.value) <=> report.value.untested_units = {}

\* C12 as stated: get_coverage_percentage() is the double of
\* tested * 100 / (tested + untested), and the frame above holds.
C12_PercentageFormula ==
  percentage.called =>
    /\ TotalCount > 0 =>
         NearestDouble(percentage.value, NatBits(TestedCount * 100), 0, TotalCount)
    /\ PercentageFrame

\* C12 amended: get_coverage_percentage() is (tested / total) * 100 with
\* both operations rounded: the double nearest to 100 times the double
\* nearest to tested / total; and the frame above holds.
C12_PercentageRoundedTwice ==
  percentage.called =>
    /\ TotalCount > 0 =>
         LET q == FloatDiv(TestedCount, TotalCount)
         IN /\ NearestDouble(q, NatBits(TestedCount), 0, TotalCount)
            /\ NearestDouble(percentage.value, NatMul(q.m, 100), q.e, 1)
    /\ PercentageFrame

\* C12 witness: the percentage of one tested file out of three.
C12_Witness ==
  /\ percentage.called
  /\ TestedCount = 1
  /\ TotalCount = 3

\* C13: when the test-list file does not exist, analyze_test_list raises
\* FileNotFoundError, has examined no declared test file and returns no
\* report (none is assigned, none can be asked for a percentage).
C13_MissingLogFails ==
  (~log.exists /\ report.raised # "not called") =>
    /\ report.raised = "FileNotFoundError"
    /\ report.examined = {}
    /\ report.value = NoReport.value
    /\ ~percentage.called

\* C13 witness: the call has raised with a declared file on disk that holds
\* test functions.
C13_Witness ==
  /\ ~log.exists
  /\ report.raised = "FileNotFoundError"
  /\ \E P \in DeclaredPaths : _get_test_functions(files, P).value # {}

\* ------------------------------------------------------- construction
WellFormedRequirement(a) == StartsWith(a.id, "REQ-") /\ a.type \in ValidTypes

WellFormedSpecification(a) ==
  /\ StartsWith(a.id, "SPEC-")
  /\ \A i \in 1..Len(a.related_requirements) : StartsWith(a.related_requirements[i], "REQ-")
  /\ \A i \in 1..Len(a.dependencies) : StartsWith(a.dependencies[i], "SPEC-")

\* C14: construction fails fast and succeeds otherwise.  A Requirement(...)
\* call that gives the five fields of a requirement raises ValueError
\* exactly when the id lacks the prefix "REQ-" or the type is none of the
\* nine categories, and returns the entity otherwise.  A Specification(...)
\* call that gives id, title, description, related_requirements,
\* implementation_unit and unit_test (any further field may be given too)
\* fails when its id lacks "SPEC-", a related requirement lacks "REQ-" or a
\* dependency lacks "SPEC-", and returns the entity with the fields given
\* otherwise.  Every entity a call returns satisfies the checks.
C14_FailFastConstruction ==
  /\ (/\ ctor.op = "Requirement"
      /\ RequirementRequired \subseteq ctor.args.keys
      /\ ctor.args.keys \subseteq Range(RequirementFields)) =>
       IF WellFormedRequirement(ctor.args)
       THEN ctor.raised = "none" /\ ctor.value = Requirement(ctor.args.id)
       ELSE ctor.raised = "ValueError"
  /\ (/\ ctor.op = "Specification"
      /\ SixKeys \subseteq ctor.args.keys
      /\ ctor.args.keys \subseteq Range(SpecificationFields)) =>
       IF WellFormedSpecification(ctor.args)
       THEN /\ ctor.raised = "none"
            /\ ctor.value = Specification(ctor.args.id, ctor.args.related_requirements,
                                           ctor.args.dependencies)
       ELSE ctor.raised # "none"
  /\ (ctor.op = "Specification" /\ ctor.raised = "none") =>
       WellFormedSpecification(ctor.value)

\* A document with the six keys and well-formed identifiers.
WellFormedDocument(data) == SixKeys \subseteq data.keys /\ WellFormedSpecification(data)

\* C15: Specification(...) with the six fields id, title, description,
\* related_requirements, implementation_unit and unit_test returns a
\* Specification with no dependencies, create_specification_from_data on a
\* dict with those six keys returns one, and parse_specifications_directory
\* returns one Specification per well-formed SPEC- document.
C15_SixFieldsSuffice ==
  /\ (ctor.op = "Specification" /\ ctor.args.keys = SixKeys
        /\ WellFormedSpecification(ctor.args)) =>
       /\ ctor.raised = "none"
       /\ ctor.value = Specification(ctor.args.id, ctor.args.related_requirements, <<>>)
  /\ (ctor.op = "create_specification_from_data" /\ ctor.args.keys = SixKeys
        /\ WellFormedSpecification(ctor.args)) =>
       /\ ctor.raised = "none"
       /\ ctor.value = Specification(ctor.args.id, ctor.args.related_requirements, <<>>)
  /\ parsed.called =>
       LET good == SelectSeq(parsed.docs, WellFormedDocument)
       IN /\ Len(parsed.value) = Len(good)
          /\ \A i \in 1..Len(good) : parsed.value[i].id = good[i].id

\* ---------------------------------------------------- validate command
\* The documents of the project by kind, and what they reference.
RequirementDocs == SelectSeq(cmd.project.docs, LAMBDA d : StartsWith(d.id, "REQ-"))
SpecificationDocs == SelectSeq(cmd.project.docs, LAMBDA d : StartsWith(d.id, "SPEC-"))
RequirementDocIds == {RequirementDocs[i].id : i \in 1..Len(RequirementDocs)}
SpecificationDocIds == {SpecificationDocs[i].id : i \in 1..Len(SpecificationDocs)}

DanglingRequirementCount ==
  Cardinality({<<i, j>> \in (1..Len(SpecificationDocs)) \X (1..MaxRefs) :
                 /\ j <= Len(SpecificationDocs[i].related_requirements)
                 /\ SpecificationDocs[i].related_requirements[j] \notin RequirementDocIds})

HasDanglingDependency ==
  \E i \in 1..Len(SpecificationDocs) :
    Range(SpecificationDocs[i].dependencies) \ SpecificationDocIds # {}

\* Every project document depends at most on itself here.
HasDocCycle ==
  \E i \in 1..Len(SpecificationDocs) :
    SpecificationDocs[i].id \in Range(SpecificationDocs[i].dependencies)

NoFlags == cmd.called /\ cmd.project.exists
             /\ ~cmd.requirements_only /\ ~cmd.specifications_only

\* C16: without -r and -s, a project that is well-formed and has neither a
\* dangling dependency nor a cycle ends with 'Validation successful' and
\* exit code 0; its dangling requirement references are warnings, counted
\* in that message, one per reference; a dangling dependency or a cycle
\* makes the command fail.
C16_DanglingRequirementsAreWarnings ==
  NoFlags =>
    IF HasDanglingDependency \/ HasDocCycle
    THEN cmd.exit_code = 1 /\ cmd.output[1] = <<"Validation failed:">>
    ELSE /\ cmd.exit_code = 0
         /\ cmd.output[1][1] = "Validation successful!"
         /\ Len(cmd.warnings) = DanglingRequirementCount
         /\ cmd.output = <<SuccessMessage(cmd.warnings)>>

\* C17: on a source text that parses, the walk over the tree and the line
\* pattern yield the same set of test-function names.
C17_ExtractionsAgree ==
  (extraction.called /\ ~SyntaxErrorIn(extraction.stmts)) =>
    extraction.structural = extraction.pattern

\* C18: a declared test file that is missing, unreadable or unparsable is
\* never an error of analyze_test_list.  Whenever the log exists the call
\* returns a report; _get_test_functions raises nothing, gives the empty set
\* for a file that is missing or cannot be read and the pattern matches for
\* a text that does not parse; every declared file is classified, as
\* untested when its function set is empty.
C18_UnreadableFileIsNoError ==
  (report.raised # "not called" /\ log.exists) =>
    /\ report.raised = "none"
    /\ \A P \in analyzer.unit_test_paths :
         /\ _get_test_functions(files, P).raised = "none"
         /\ files[P].state # "file" => _get_test_functions(files, P).value = {}
         /\ (files[P].state = "file" /\ SyntaxErrorIn(files[P].stmts)) =>
              _get_test_functions(files, P).value
                = _extract_test_functions_regex(ReadText(Render(files[P].stmts)))
         /\ P \in report.value.tested_units \cup report.value.untested_units
         /\ _get_test_functions(files, P).value = {} => P \in report.value.untested_units

\* C19: two validation runs whose steps interleave do not interfere.  Each
\* run that has returned holds exactly what validate_cross_references
\* returns for its validator when it is called alone, whether the two runs
\* call the same validator or each its own.
C19_RunsDoNotInterfere ==
  \A r \in Runs :
    runs[r].pc = "done" => runs[r].result = validate_cross_references(runs[r].self)

\* C19 witness: both runs have returned, the second began while the first
\* was inside its walk, on the same validator, and a cycle was reported.
C19_Witness ==
  /\ \A r \in Runs : runs[r].pc = "done"
  /\ runs[2].overlapped
  /\ runs[2].object = runs[1].object
  /\ \E i \in 1..Len(runs[2].result.value.errors) :
       IsCycleError(runs[2].result.value.errors[i])

\* The lines of the log as it is read, trimmed.
TrimmedLines ==
  LET raw == Split(ReadText(log.content), "\n") IN [i \in 1..Len(raw) |-> Strip(raw[i])]

\* A trimmed line that is skipped: blank, or a comment.
IsSkipped(t) == t = "" \/ SubSeq(t, 1, 1) = "#"

\* Does rule number n of the list apply to the trimmed line t.
RuleApplies(n, t) ==
  \/ n = 1 /\ (StartsWith(t, "tests/") \/ StartsWith(t, "test"))
  \/ n = 2 /\ Find(t, "::") > 0
  \/ n = 3 /\ EndsWith(t, ".py")
  \/ n = 4 /\ Find(ToLower(t), "test") > 0
  \/ n = 5

\* The number of the first rule a trimmed line matches.
FirstRule(t) ==
  CHOOSE n \in 1..5 : RuleApplies(n, t) /\ \A m \in 1..(n - 1) : ~RuleApplies(m, t)

\* The log without its blank and comment lines.
WithoutSkipped ==
  LET raw == Split(ReadText(log.content), "\n")
  IN JoinLines(SelectSeq(raw, LAMBDA l : ~IsSkipped(Strip(l))))

\* C20: _parse_test_list returns exactly the set the rule list gives.  Of
\* the trimmed lines that are neither blank nor comments, those whose first
\* rule is 1, 3 or 4 are kept whole, those whose first rule is 2 give the
\* text before their first "::", the others nothing; the log without its
\* blank and comment lines gives the same set.
C20_ParseRules ==
  report.raised = "none" =>
    LET kept == {i \in 1..Len(TrimmedLines) : ~IsSkipped(TrimmedLines[i])}
    IN /\ report.executed_tests
            = {TrimmedLines[i] : i \in {j \in kept : FirstRule(TrimmedLines[j]) \in {1, 3, 4}}}
                \cup {SubSeq(TrimmedLines[i], 1, Find(TrimmedLines[i], "::") - 1) :
                        i \in {j \in kept : FirstRule(TrimmedLines[j]) = 2}}
       /\ _parse_test_list(WithoutSkipped) = report.executed_tests

\* C20 witness: a log of a comment line and an indented line of the second
\* rule with two separators has been read, and only the text before the
\* first separator was kept.
C20_Witness ==
  /\ report.raised = "none"
  /\ \E i \in 1..Len(TrimmedLines) : TrimmedLines[i] # "" /\ IsSkipped(TrimmedLines[i])
  /\ \E i \in 1..Len(TrimmedLines) :
       /\ TrimmedLines[i] = "lib/a::b::c"
       /\ FirstRule(TrimmedLines[i]) = 2
  /\ report.executed_tests = {"lib/a"}

\* ------------------------------------------------------ function matching
\* The functions of a declared file the report lists as covered.
CoveredIn(P) ==
  IF P \in DOMAIN report.value.tested_functions THEN report.value.tested_functions[P] ELSE {}

\* The functions of a declared file the report lists as missing.
MissingIn(P) ==
  IF P \in DOMAIN report.value.untested_functions
  THEN report.value.untested_functions[P]
  ELSE {}

\* C21: a function f of a declared file P counts as covered exactly when
\* some executed-test string equals "P::f", or holds "P::f", or holds both
\* P and f; that is, exactly when one executed-test string holds both P and
\* f.  Nothing is covered when no test was executed.
C21_CoveredIffBothMentioned ==
  report.raised = "none" =>
    /\ \A P \in DeclaredPaths : \A f \in _get_test_functions(files, P).value :
         /\ f \in CoveredIn(P) <=>
              \E e \in report.executed_tests :
                \/ e = P \o "::" \o f
                \/ Find(e, P \o "::" \o f) > 0
                \/ Find(e, P) > 0 /\ Find(e, f) > 0
         /\ f \in CoveredIn(P) <=>
              \E e \in report.executed_tests : Find(e, P) > 0 /\ Find(e, f) > 0
    /\ report.executed_tests = {} => \A P \in DeclaredPaths : CoveredIn(P) = {}

\* C21 witness: one report in which test_a of tests/test_x.py is covered by
\* the exact reference and test_b of tests/test_b.py only by a line that
\* holds path and function name without the reference, while test_b of
\* tests/test_x.py is not covered.
C21_Witness ==
  /\ report.raised = "none"
  /\ report.executed_tests = {"tests/test_x.py::test_a", "tests/test_b.py"}
  /\ DeclaredPaths = {"tests/test_x.py", "tests/test_b.py"}
  /\ CoveredIn("tests/test_x.py") = {"test_a"}
  /\ CoveredIn("tests/test_b.py") = {"test_b"}

\* The functions of a declared file that some executed-test string mentions
\* together with the file.
MentionedWith(P) ==
  {f \in _get_test_functions(files, P).value :
     \E e \in report.executed_tests : Find(e, P) > 0 /\ Find(e, f) > 0}

\* C22: per-file aggregation.  A declared file with at least one extracted
\* function is tested iff one of its functions is covered; a tested file
\* maps to its covered functions in tested_functions and, only when some
\* remain, to the remaining ones in untested_functions; a file none of
\* whose functions is covered is untested, no key of tested_functions, and
\* maps to all its functions in untested_functions.  The covered and the
\* missing functions of every declared file are disjoint and together the
\* extracted ones.
C22_PerFileAggregation ==
  report.raised = "none" =>
    \A P \in DeclaredPaths :
      LET functions == _get_test_functions(files, P).value
          covered == MentionedWith(P)
      IN /\ functions # {} =>
              /\ P \in report.value.tested_units <=> covered # {}
              /\ covered # {} =>
                   /\ P \in DOMAIN report.value.tested_functions
                   /\ report.value.tested_functions[P] = covered
                   /\ P \in DOMAIN report.value.untested_functions <=> functions \ covered # {}
                   /\ MissingIn(P) = functions \ covered
              /\ covered = {} =>
                   /\ P \in report.value.untested_units
                   /\ P \notin DOMAIN report.value.tested_functions
                   /\ P \in DOMAIN report.value.untested_functions
                   /\ report.value.untested_functions[P] = functions
         /\ CoveredIn(P) \cap MissingIn(P) = {}
         /\ CoveredIn(P) \cup MissingIn(P) = functions

\* C22 witness: a report with a partly covered file (test_a covered, test_b
\* missing) next to a file with a function of which none is covered.
C22_Witness ==
  /\ report.raised = "none"
  /\ DeclaredPaths = {"tests/test_x.py", "tests/test_b.py"}
  /\ report.value.tested_units = {"tests/test_x.py"}
  /\ report.value.tested_functions["tests/test_x.py"] = {"test_a"}
  /\ report.value.untested_functions["tests/test_x.py"] = {"test_b"}
  /\ report.value.untested_units = {"tests/test_b.py"}
  /\ report.value.untested_functions["tests/test_b.py"] = {"test_b"}

\* ------------------------------------------------------ order of errors
\* The indexed identifiers in the order of their first occurrence in the
\* caller's list.
IndexOrder ==
  CHOOSE o \in [1..Cardinality(IndexedIds) -> IndexedIds] :
    \A i, j \in 1..Cardinality(IndexedIds) : i < j => FirstPos(o[i]) < FirstPos(o[j])

\* The (specification id, dependency id) pairs of the dangling dependency
\* entries, specifications in the order ids, entries in declared order.
RECURSIVE DanglingDepPairs(_)
DanglingDepPairs(ids) ==
  IF ids = <<>> THEN <<>>
  ELSE LET deps == SelectSeq(Indexed(Head(ids)).dependencies,
                             LAMBDA d : d \notin IndexedIds)
       IN [i \in 1..Len(deps) |-> <<Head(ids), deps[i]>>] \o DanglingDepPairs(Tail(ids))

DanglingReqTexts ==
  LET pairs == DanglingPairs(IndexOrder)
  IN [i \in 1..Len(pairs) |-> DanglingReqText(pairs[i][1], pairs[i][2])]

DanglingDepTexts ==
  LET pairs == DanglingDepPairs(IndexOrder)
  IN [i \in 1..Len(pairs) |-> DanglingDepText(pairs[i][1], pairs[i][2])]

\* C23: the order of the errors.  When the call starts its walk, errors
\* holds the dangling-requirement errors (specifications in index order,
\* related requirements in declared order) followed by the
\* dangling-dependency errors (same order); during the walk errors is left
\* alone and a cycle that is discovered is added after those discovered
\* before; the top-level loop starts the specifications in index order and
\* dfs takes the dependencies in declared order; the returned errors are
\* the two groups followed by the cycle errors in discovery order.
C23_ErrorOrder ==
  [][/\ (wpc = "idle" /\ wpc' = "walk") =>
          /\ errors' = DanglingReqTexts \o DanglingDepTexts
          /\ walk'.cycles = <<>>
     /\ (wpc = "walk" /\ wpc' = "walk") =>
          /\ errors' = errors
          /\ \/ walk'.cycles = walk.cycles
             \/ \E cycle \in SeqsUpTo(IndexedIds, Cardinality(IndexedIds) + 1) :
                  walk'.cycles = Append(walk.cycles, cycle)
          /\ top' \in {top, top + 1}
          /\ (frames = <<>> /\ frames' # <<>>) =>
               /\ top' = top + 1
               /\ frames'[1].spec_id = IndexOrder[top]
          /\ (frames # <<>> /\ Len(frames') = Len(frames) + 1) =>
               LET caller == frames[Len(frames)]
               IN /\ frames'[Len(frames')].spec_id = Indexed(caller.spec_id).dependencies[caller.i]
                  /\ frames'[Len(frames)].i = caller.i + 1
     /\ (wpc = "walk" /\ wpc' = "idle") =>
          /\ Len(results') = Len(results) + 1
          /\ results'[Len(results')].value.errors
               = DanglingReqTexts \o DanglingDepTexts
                   \o [i \in 1..Len(walk.cycles) |-> CycleText(walk.cycles[i])]]_vars

\* C23 witness: a call has returned a dangling-requirement error, a
\* dangling-dependency error and two cycle errors, for a list in which the
\* first identifier occurs twice.
C23_Witness ==
  /\ Len(results) = 1
  /\ Len(specifications) > Cardinality(IndexedIds)
  /\ \E i \in 1..Len(ErrorsOf(1)) : IsReqError(ErrorsOf(1)[i])
  /\ \E i \in 1..Len(ErrorsOf(1)) : IsDepError(ErrorsOf(1)[i])
  /\ Len(CycleErrorsOf(1)) >= 2

\* ------------------------------------------------- absent dependencies
\* The caller's specifications without the dependency entries that name
\* no indexed specification.
WithoutAbsent ==
  [i \in 1..Len(specifications) |->
     [specifications[i] EXCEPT
        !.dependencies = SelectSeq(@, LAMBDA d : d \in IndexedIds)]]

\* C24: a dependency id the index lacks is skipped by the walk.  No dfs
\* call is made from the activation of such an id, no discovered or
\* reported cycle holds one, and the cycle errors are those of the same
\* list without the entries naming absent specifications; every other
\* error of the two results is the same but for the dangling-dependency
\* errors.
C24_AbsentDependencySkipped ==
  /\ \A k \in 1..Len(frames) : frames[k].spec_id \notin IndexedIds => k = Len(frames)
  /\ \A i \in 1..Len(walk.cycles) : Range(walk.cycles[i]) \subseteq IndexedIds
  /\ \A n \in 1..Len(results) :
       LET alone == validate_cross_references(NewValidator(requirements, WithoutAbsent))
       IN /\ \A i \in 1..Len(CycleErrorsOf(n)) :
               Range(PathOf(CycleErrorsOf(n)[i])) \subseteq IndexedIds
          /\ CycleErrorsOf(n) = SelectSeq(alone.value.errors, IsCycleError)
          /\ SelectSeq(ErrorsOf(n), LAMBDA e : ~IsDepError(e)) = alone.value.errors

\* C24 witness: a call has returned a cycle error and a dangling-dependency
\* error for a list in which a member of the cycle names the absent
\* specification before its dependency on the cycle, and the walk has
\* passed through the absent id.
C24_Witness ==
  /\ Len(results) = 1
  /\ Len(CycleErrorsOf(1)) >= 1
  /\ \E x \in IndexedIds :
       /\ x \in Range(PathOf(CycleErrorsOf(1)[1]))
       /\ Len(Indexed(x).dependencies) >= 2
       /\ Indexed(x).dependencies[1] \notin IndexedIds
       /\ Indexed(x).dependencies[1] \in walk.visited
       /\ DanglingDepText(x, Indexed(x).dependencies[1]) \in Range(ErrorsOf(1))

\* ------------------------------------------------------ single expansion
\* C25: within one walk the dependency list of a specification is expanded
\* at most once.  visited only grows; the step that starts the loop of dfs
\* for an id finds the id outside visited and puts it there; the
\* top-level loop starts no id that is in visited.
C25_ExpandedAtMostOnce ==
  [][(wpc = "walk" /\ wpc' = "walk") =>
       /\ walk.visited \subseteq walk'.visited
       /\ (/\ frames # <<>>
           /\ Len(frames') = Len(frames)
           /\ frames[Len(frames)].at = "call"
           /\ frames'[Len(frames)].at = "loop") =>
            /\ frames[Len(frames)].spec_id \notin walk.visited
            /\ frames[Len(frames)].spec_id \in walk'.visited
       /\ (frames = <<>> /\ frames' # <<>>) => frames'[1].spec_id \notin walk.visited]_vars

\* C25 witness: dfs has been called for a specification with dependencies
\* that is fully visited (in visited, off the stack), reached again through
\* another dependency entry of the specification that is being expanded.
C25_Witness ==
  /\ wpc = "walk"
  /\ Len(frames) >= 2
  /\ frames[Len(frames)].at = "call"
  /\ frames[Len(frames)].spec_id \in walk.visited \ walk.rec_stack
  /\ frames[Len(frames)].spec_id \in IndexedIds
  /\ Indexed(frames[Len(frames)].spec_id).dependencies # <<>>

\* ------------------------------------------------------ repeated cycles
\* C26: no cycle is reported twice.  No two circular-dependency errors of
\* one result are the same string, also for dependency lists that name a
\* specification more than once and for self-dependencies.
C26_NoCycleReportedTwice ==
  \A n \in 1..Len(results) :
    \A i, j \in 1..Len(CycleErrorsOf(n)) :
      CycleErrorsOf(n)[i] = CycleErrorsOf(n)[j] => i = j

\* ------------------------------------------------- duplicate identifiers
\* Is position i of the caller's specifications the last one of its id.
IsLastOfId(i) == \A j \in (i + 1)..Len(specifications) : specifications[j].id # specifications[i].id

\* The caller's specifications with an entity of every id once: the one
\* that occurs last, at the place where the id occurs first.
LastWriters ==
  [k \in 1..Cardinality(IndexedIds) |->
     specifications[CHOOSE i \in 1..Len(specifications) :
                      specifications[i].id = IndexOrder[k] /\ IsLastOfId(i)]]

\* The related requirements and dependencies of the entities that are not
\* the last of their id.
ShadowedEntries ==
  {<<specifications[i].id, x>> :
     i \in {j \in 1..Len(specifications) : ~IsLastOfId(j)},
     x \in ReqIds \cup SpecIds}
    \ {<<sid, x>> \in IndexedIds \X (ReqIds \cup SpecIds) :
         x \in Range(Indexed(sid).related_requirements) \cup Range(Indexed(sid).dependencies)}

\* C27: duplicate identifiers are resolved last-write-wins.  The index
\* lists every id at the place of its first occurrence and holds the entity
\* that occurs last; the requirement index has every id once; every result
\* is the result for the list of the last entities alone, and no
\* dangling-reference error names an entry that only an earlier duplicate
\* holds.
C27_LastWriteWins ==
  constructed =>
    /\ validator.specifications.keys = IndexOrder
    /\ \A k \in IndexedIds :
         \E i \in 1..Len(specifications) :
           IsLastOfId(i) /\ specifications[i].id = k /\ validator.specifications.val[k] = specifications[i]
    /\ Range(validator.requirements.keys) = PresentReqIds
    /\ Len(validator.requirements.keys) = Cardinality(PresentReqIds)
    /\ \A n \in 1..Len(results) :
         /\ results[n] = validate_cross_references(NewValidator(requirements, LastWriters))
         /\ \A i \in 1..Len(ErrorsOf(n)) :
              (IsReqError(ErrorsOf(n)[i]) \/ IsDepError(ErrorsOf(n)[i])) =>
                <<ErrorsOf(n)[i][2], ErrorsOf(n)[i][4]>> \notin ShadowedEntries

\* C27 witness: a call has returned without errors for a list whose first
\* entity depends on an absent specification and on itself, and whose last
\* entity, of the same id, has no dependencies; another id stands between.
C27_Witness ==
  /\ Len(results) >= 1
  /\ ErrorsOf(1) = <<>>
  /\ Len(specifications) = 3
  /\ specifications[1].id = specifications[3].id
  /\ specifications[2].id # specifications[1].id
  /\ Range(specifications[1].dependencies) \ IndexedIds # {}
  /\ specifications[1].id \in Range(specifications[1].dependencies)
  /\ specifications[3].dependencies = <<>>

\* ------------------------------------------------------ no exception
\* C28: validate_cross_references() raises nothing.  No step of the walk
\* raises and every call returns a ValidationResult; at every entry to dfs
\* the recursion stack holds exactly the ids of the path argument, so an
\* id met on the stack has a position in the path; between two top-level
\* walks the recursion stack is empty.
C28_NeverRaises ==
  /\ walk.raised = "none"
  /\ \A n \in 1..Len(results) :
       /\ results[n].raised = "none"
       /\ results[n].value.is_valid \in BOOLEAN
  /\ (wpc = "walk" /\ frames # <<>> /\ frames[Len(frames)].at = "call") =>
       /\ walk.rec_stack = Range(frames[Len(frames)].path)
       /\ frames[Len(frames)].spec_id \in walk.rec_stack =>
            IndexOf(frames[Len(frames)].path, frames[Len(frames)].spec_id) >= 1
  /\ (wpc = "walk" /\ frames = <<>>) => walk.rec_stack = {}

\* C28 witness: dfs is entered for an id that is on the recursion stack
\* and not the first of the path, after an earlier top-level walk has
\* returned.
C28_Witness ==
  /\ wpc = "walk"
  /\ top > 2
  /\ frames # <<>>
  /\ frames[Len(frames)].at = "call"
  /\ frames[Len(frames)].spec_id \in walk.rec_stack
  /\ IndexOf(frames[Len(frames)].path, frames[Len(frames)].spec_id) >= 2

\* ------------------------------------------------------ cycle test
\* C29: cycle detection is complete as a yes/no test.  A result holds a
\* circular-dependency error, and is then invalid, exactly when the
\* dependencies among the indexed specifications have a directed cycle,
\* whatever the order of the specifications and of their dependencies.
C29_CycleErrorIffCycle ==
  \A n \in 1..Len(results) :
    /\ CycleErrorsOf(n) # <<>> <=> SimpleCycles # {}
    /\ SimpleCycles # {} => ~results[n].value.is_valid

\* C29 witness: a call has found a cycle of two members that the first
\* specification of the list, which has no dependencies, does not lead to.
C29_Witness ==
  /\ Len(results) >= 1
  /\ specifications # <<>>
  /\ specifications[1].id = validator.specifications.keys[1]
  /\ Indexed(specifications[1].id).dependencies = <<>>
  /\ \E c \in SimpleCycles : Len(c) = 2
  /\ CycleErrorsOf(1) # <<>>
  /\ ~results[1].value.is_valid

\* ------------------------------------------------------ report partition
\* C30: in every report tested_units and untested_units are disjoint and
\* together the declared unit_test paths, a path that several
\* specifications declare included; tested_functions has the tested units
\* as its keys and untested_functions has declared paths as its keys.
C30_ReportPartition ==
  report.raised = "none" =>
    /\ report.value.tested_units \cap report.value.untested_units = {}
    /\ report.value.tested_units \cup report.value.untested_units = DeclaredPaths
    /\ DOMAIN report.value.tested_functions = report.value.tested_units
    /\ DOMAIN report.value.untested_functions \subseteq DeclaredPaths

\* C30 witness: a report for two specifications that declare two paths, one
\* tested with a missing function and one untested, and another for two
\* specifications that declare the same path.
C30_Witness ==
  /\ report.raised = "none"
  /\ Len(cov_specifications) = 2
  /\ \/ /\ Cardinality(DeclaredPaths) = 2
        /\ Cardinality(report.value.tested_units) = 1
        /\ DOMAIN report.value.untested_functions = DeclaredPaths
     \/ /\ Cardinality(DeclaredPaths) = 1
        /\ report.value.tested_units = DeclaredPaths

====
